---- MODULE Spec2Model ----
(***************************************************************************)
(* Model of the migrator: the connector of db/db.go (CreateVersion,        *)
(* CreateTenant, applyMigrationsInTx, the reads of versions), the HTTP     *)
(* handlers and the recovery middleware of server/server.go with the       *)
(* health handler of the v2 server, and the coordinator and loader steps   *)
(* that feed them (their sources are not part of the repository files at   *)
(* hand; they follow the specification).                                   *)
(*                                                                         *)
(* The database is a transactional store: a transaction's writes are kept  *)
(* with the call that made them and reach the persisted tables on commit.  *)
(* Every statement may fail.                                               *)
(***************************************************************************)
EXTENDS Integers, Sequences, FiniteSets, TLC

\* ------------------------------------------------------------------ bounds

\* Version rows the sequence of migrator_versions may hand out in one run.
MaxVersions == 2
\* Modifications of files already on disk in one run.
MaxEdits == 1

\* ------------------------------------------------------------- data model

Procs == {1, 2}
\* The requests of the sequential specification are served one at a time.
SeqProcs == {1}

SingleMigration == "SingleMigration"
TenantMigration == "TenantMigration"
SingleScript == "SingleScript"
TenantScript == "TenantScript"

ActionApply == "Apply"
ActionSync == "Sync"

defaultSchemaPlaceHolder == "{schema}"

\* The files that may appear under the base directory.
FileIds == 1 .. 4
\* The files the loader is run over: those, a second directory of single
\* migrations and a second directory of tenant migrations.
LoaderFileIds == 1 .. 6
TenantNames == {"a", "b"}
\* The names a request to add a tenant may carry: those, no name at all, and
\* names that are no identifiers.
RequestNames == TenantNames \cup {"", "1a", "a;b"}

\* The characters of a name.
NameChars(name) ==
    CASE name = "a" -> <<"a">>
      [] name = "b" -> <<"b">>
      [] name = "1a" -> <<"1", "a">>
      [] name = "a;b" -> <<"a", ";", "b">>
      [] OTHER -> <<>>

\* Name (a timestamp), SourceDir (path segments) and Kind of each file.
FileDef(f) ==
    CASE f = 1 -> [Name |-> 1, SourceDir |-> <<"migrations", "config">>, Kind |-> SingleMigration]
      [] f = 2 -> [Name |-> 1, SourceDir |-> <<"migrations", "tenants">>, Kind |-> TenantMigration]
      [] f = 3 -> [Name |-> 2, SourceDir |-> <<"migrations", "config-scripts">>, Kind |-> SingleScript]
      [] f = 4 -> [Name |-> 3, SourceDir |-> <<"migrations", "tenants-scripts">>, Kind |-> TenantScript]
      [] f = 5 -> [Name |-> 1, SourceDir |-> <<"migrations", "ref">>, Kind |-> SingleMigration]
      [] f = 6 -> [Name |-> 1, SourceDir |-> <<"migrations", "common">>, Kind |-> TenantMigration]

\* What a file holds: its first contents and its contents once modified.
NoFile == <<>>
ContentsOf(f, rev) ==
    CASE f = 1 -> <<IF rev = 1 THEN "create" ELSE "alter", "modules">>
      [] f = 2 -> <<IF rev = 1 THEN "create" ELSE "alter", defaultSchemaPlaceHolder, "settings">>
      [] f = 3 -> <<IF rev = 1 THEN "insert" ELSE "update", "modules">>
      [] f = 4 -> <<IF rev = 1 THEN "insert" ELSE "update", defaultSchemaPlaceHolder, "settings">>
      [] f = 5 -> <<IF rev = 1 THEN "create" ELSE "alter", "roles">>
      [] f = 6 -> <<IF rev = 1 THEN "create" ELSE "alter", defaultSchemaPlaceHolder, "roles">>

TokenCode(t) ==
    CASE t = "create" -> 3
      [] t = "alter" -> 5
      [] t = "insert" -> 7
      [] t = "update" -> 11
      [] t = "modules" -> 13
      [] t = "settings" -> 17
      [] t = defaultSchemaPlaceHolder -> 19
      [] t = "roles" -> 23
      [] OTHER -> 29

RECURSIVE Digest(_, _)
Digest(contents, h) ==
    IF contents = <<>> THEN h
    ELSE Digest(Tail(contents), (h * 31 + TokenCode(Head(contents))) % 65521)

\* Checksum of a file's contents (a digest of the text, not the text).
CheckSum(contents) == Digest(contents, 1)

KindRank(k) ==
    CASE k = SingleMigration -> 1
      [] k = TenantMigration -> 2
      [] k = SingleScript -> 3
      [] k = TenantScript -> 4

SegRank(s) ==
    CASE s = "common" -> 1
      [] s = "config" -> 2
      [] s = "config-scripts" -> 3
      [] s = "migrations" -> 4
      [] s = "ref" -> 5
      [] s = "tenants" -> 6
      [] s = "tenants-scripts" -> 7
      [] OTHER -> 8

RECURSIVE DirLess(_, _)
DirLess(d1, d2) ==
    IF d1 = <<>> THEN d2 /= <<>>
    ELSE IF d2 = <<>> THEN FALSE
    ELSE IF Head(d1) /= Head(d2) THEN SegRank(Head(d1)) < SegRank(Head(d2))
    ELSE DirLess(Tail(d1), Tail(d2))

\* A source migration as the loader builds it.
Migration(f, contents) ==
    [Name |-> FileDef(f).Name,
     SourceDir |-> FileDef(f).SourceDir,
     File |-> <<FileDef(f).SourceDir, FileDef(f).Name>>,
     Kind |-> FileDef(f).Kind,
     Contents |-> contents,
     CheckSum |-> CheckSum(contents)]

\* MigrationLess without the kinds: Name, then SourceDir.
MigrationLessIgnoresKind(m1, m2) ==
    IF m1.Name /= m2.Name THEN m1.Name < m2.Name
    ELSE DirLess(m1.SourceDir, m2.SourceDir)

\* The loader's total order: Name, then Kind, then SourceDir.
MigrationLess(m1, m2) ==
    IF m1.Name /= m2.Name THEN m1.Name < m2.Name
    ELSE IF m1.Kind /= m2.Kind THEN KindRank(m1.Kind) < KindRank(m2.Kind)
    ELSE DirLess(m1.SourceDir, m2.SourceDir)

RECURSIVE SortMigrations(_)
SortMigrations(ms) ==
    IF ms = {} THEN <<>>
    ELSE LET first == CHOOSE m \in ms : \A o \in ms \ {m} : MigrationLess(m, o)
         IN <<first>> \o SortMigrations(ms \ {first})

\* GetSourceMigrations: every file on disk, sorted.
GetSourceMigrations(d) ==
    SortMigrations({Migration(f, d[f]) : f \in {g \in DOMAIN d : d[g] /= NoFile}})

\* The orders in which the files of a set may be enumerated.
RECURSIVE Enumerations(_)
Enumerations(files) ==
    IF files = {} THEN {<<>>}
    ELSE UNION {{<<f>> \o rest : rest \in Enumerations(files \ {f})} : f \in files}

\* m put at its place in a sorted sequence.
RECURSIVE InsertSorted(_, _)
InsertSorted(sorted, m) ==
    IF sorted = <<>> THEN <<m>>
    ELSE IF MigrationLess(m, Head(sorted)) THEN <<m>> \o sorted
    ELSE <<Head(sorted)>> \o InsertSorted(Tail(sorted), m)

\* The loader over the files as enumerated: each becomes a migration and the
\* union is sorted.
RECURSIVE SortEnumerated(_, _)
SortEnumerated(d, order) ==
    IF order = <<>> THEN <<>>
    ELSE InsertSorted(SortEnumerated(d, Tail(order)), Migration(Head(order), d[Head(order)]))

\* What is found where a configured directory should be when it is missing.
NoDir == <<"ENOENT">>

\* The configured directories, each named by its file, in the order of the
\* four lists: single migrations, tenant migrations, single scripts, tenant
\* scripts.
ConfiguredDirs(d) == SelectSeq(<<1, 5, 2, 6, 3, 4>>, LAMBDA f : f \in DOMAIN d)

\* The loader leaving out the directories it does not find.
ReadDirsSkipsMissing(d, order) ==
    [panic |-> [kind |-> "none", msg |-> ""], named |-> <<>>,
     migrations |-> SortEnumerated(d, SelectSeq(order, LAMBDA f : d[f] /= NoDir))]

\* The loader reads the configured directories: the first one that is missing
\* ends the call with a panic naming it and nothing is returned; otherwise
\* the files as enumerated are sorted.
ReadDirs(d, order) ==
    LET missing == SelectSeq(ConfiguredDirs(d), LAMBDA f : d[f] = NoDir)
    IN IF missing /= <<>>
       THEN [panic |-> [kind |-> "string", msg |-> "no such file or directory"],
             named |-> FileDef(missing[1]).SourceDir,
             migrations |-> <<>>]
       ELSE [panic |-> [kind |-> "none", msg |-> ""], named |-> <<>>,
             migrations |-> SortEnumerated(d, order)]

IsTenantKind(k) == k \in {TenantMigration, TenantScript}
IsMigrationKind(k) == k \in {SingleMigration, TenantMigration}

\* filepath.Base of a source directory.
Base(dir) == dir[Len(dir)]

SeqToSet(s) == {s[i] : i \in 1 .. Len(s)}

\* --------------------------------------------------- connector, pure parts

NoPanic == [kind |-> "none", msg |-> ""]
\* panic(fmt.Sprintf(...)): the value is a string.
StrPanic(msg) == [kind |-> "string", msg |-> msg]
\* A runtime panic (nil dereference): the value is a runtime.Error.
RuntimePanic(msg) == [kind |-> "runtime", msg |-> msg]

ZeroResults ==
    [Tenants |-> 0, SingleMigrations |-> 0, SingleScripts |-> 0,
     TenantMigrations |-> 0, TenantScripts |-> 0,
     TenantMigrationsTotal |-> 0, TenantScriptsTotal |-> 0,
     MigrationsGrandTotal |-> 0, ScriptsGrandTotal |-> 0]

\* results := &types.MigrationResults{StartedAt: now, Tenants: len(tenants)}
NewResults(tenants) == [ZeroResults EXCEPT !.Tenants = Len(tenants)]

\* The drivers a dialect exists for.
KnownDrivers == {"postgres", "mysql", "sqlserver"}

\* newDialect accepting every driver.
newDialectAcceptsAll(driver) == [panic |-> [kind |-> "none", msg |-> ""], named |-> <<>>]

\* newDialect: the dialect of the configured driver, or a panic naming the
\* driver when there is none.
newDialect(driver) ==
    IF driver \in KnownDrivers
    THEN [panic |-> NoPanic, named |-> <<>>]
    ELSE [panic |-> StrPanic("Failed to create Connector unknown driver"),
          named |-> <<driver>>]

\* getTenantSelectSQL always answering with the dialect's statement.
getTenantSelectSQLDefaultOnly(cfgSelectSQL) ==
    "select name from migrator.migrator_tenants"

\* The configured statement, or the one the dialect gives for its own
\* tenants table.
getTenantSelectSQL(cfgSelectSQL) ==
    IF cfgSelectSQL /= "" THEN cfgSelectSQL
    ELSE "select name from migrator.migrator_tenants"

getTenantInsertSQL(cfgInsertSQL) ==
    IF cfgInsertSQL /= "" THEN cfgInsertSQL
    ELSE "insert into migrator.migrator_tenants (name) values ($1)"

\* A bootstrap statement as the database keeps its effect.
BootstrapSQL(object) ==
    [File |-> <<<<>>, 0>>, Schema |-> "migrator", SQL |-> <<"create if not exists", object>>]

\* init: the statements of the bootstrap, in order; the default tenants
\* table only when the configuration names no tenantSelectSQL.
BootstrapSQLs(cfgSelectSQL) ==
    <<BootstrapSQL("migrator"), BootstrapSQL("migrator_migrations"),
      BootstrapSQL("migrator_versions")>>
    \o (IF cfgSelectSQL = "" THEN <<BootstrapSQL("migrator_tenants")>> ELSE <<>>)

getSchemaPlaceHolder(cfgPlaceHolder) ==
    IF cfgPlaceHolder /= "" THEN cfgPlaceHolder ELSE defaultSchemaPlaceHolder

\* strings.Replace with n = 1: only the first occurrence is replaced.
ReplaceFirst(contents, placeholder, schema) ==
    [k \in 1 .. Len(contents) |->
        IF contents[k] = placeholder /\ \A j \in 1 .. k - 1 : contents[j] /= placeholder
        THEN schema ELSE contents[k]]

\* strings.Replace(contents, placeholder, schema, -1)
Replace(contents, placeholder, schema) ==
    [k \in 1 .. Len(contents) |->
        IF contents[k] = placeholder THEN schema ELSE contents[k]]

\* Schemas with the tenants taken in reverse order.
SchemasReversed(m, tenants) ==
    IF m.Kind = TenantMigration \/ m.Kind = TenantScript
    THEN [k \in 1 .. Len(tenants) |-> tenants[Len(tenants) + 1 - k]]
    ELSE <<Base(m.SourceDir)>>

\* Schemas falling back to the source directory when there is no tenant.
SchemasNeverEmpty(m, tenants) ==
    IF (m.Kind = TenantMigration \/ m.Kind = TenantScript) /\ tenants /= <<>>
    THEN tenants
    ELSE <<Base(m.SourceDir)>>

\* The schemas one migration is applied to.
Schemas(m, tenants) ==
    IF m.Kind = TenantMigration \/ m.Kind = TenantScript
    THEN tenants
    ELSE <<Base(m.SourceDir)>>

\* CountMigration with the per-tenant totals raised by one per migration.
CountMigrationOnce(results, m, nSchemas) ==
    [results EXCEPT
        !.SingleMigrations = @ + (IF m.Kind = SingleMigration THEN 1 ELSE 0),
        !.SingleScripts = @ + (IF m.Kind = SingleScript THEN 1 ELSE 0),
        !.TenantMigrations = @ + (IF m.Kind = TenantMigration THEN 1 ELSE 0),
        !.TenantMigrationsTotal = @ + (IF m.Kind = TenantMigration THEN 1 ELSE 0),
        !.TenantScripts = @ + (IF m.Kind = TenantScript THEN 1 ELSE 0),
        !.TenantScriptsTotal = @ + (IF m.Kind = TenantScript THEN 1 ELSE 0)]

\* The counters after one migration went through all of its schemas.
CountMigration(results, m, nSchemas) ==
    [results EXCEPT
        !.SingleMigrations = @ + (IF m.Kind = SingleMigration THEN 1 ELSE 0),
        !.SingleScripts = @ + (IF m.Kind = SingleScript THEN 1 ELSE 0),
        !.TenantMigrations = @ + (IF m.Kind = TenantMigration THEN 1 ELSE 0),
        !.TenantMigrationsTotal = @ + (IF m.Kind = TenantMigration THEN nSchemas ELSE 0),
        !.TenantScripts = @ + (IF m.Kind = TenantScript THEN 1 ELSE 0),
        !.TenantScriptsTotal = @ + (IF m.Kind = TenantScript THEN nSchemas ELSE 0)]

\* GrandTotals with the single counters of the two totals exchanged.
GrandTotalsSwapped(results) ==
    [results EXCEPT
        !.MigrationsGrandTotal = results.TenantMigrationsTotal + results.SingleScripts,
        !.ScriptsGrandTotal = results.TenantScriptsTotal + results.SingleMigrations]

\* The deferred function of applyMigrationsInTx.
GrandTotals(results) ==
    [results EXCEPT
        !.MigrationsGrandTotal = results.TenantMigrationsTotal + results.SingleMigrations,
        !.ScriptsGrandTotal = results.TenantScriptsTotal + results.SingleScripts]

\* MigrationRow with the source directory stored as the file name.
MigrationRowDropsName(m, s, versionID) ==
    [Name |-> m.Name, SourceDir |-> m.SourceDir, File |-> <<m.SourceDir, 0>>, Kind |-> m.Kind,
     Schema |-> s, Contents |-> m.Contents, CheckSum |-> m.CheckSum,
     VersionID |-> versionID]

\* MigrationRow with no version id on the row.
MigrationRowZeroVersion(m, s, versionID) ==
    [Name |-> m.Name, SourceDir |-> m.SourceDir, File |-> m.File, Kind |-> m.Kind,
     Schema |-> s, Contents |-> m.Contents, CheckSum |-> m.CheckSum,
     VersionID |-> 0]

\* MigrationRow storing the contents as executed, the placeholder replaced.
MigrationRowSubstituted(m, s, versionID) ==
    [Name |-> m.Name, SourceDir |-> m.SourceDir, File |-> m.File, Kind |-> m.Kind,
     Schema |-> s,
     Contents |-> [k \in 1 .. Len(m.Contents) |->
                      IF m.Contents[k] = "{schema}" THEN s ELSE m.Contents[k]],
     CheckSum |-> m.CheckSum,
     VersionID |-> versionID]

\* The row inserted for migration m and schema s.
MigrationRow(m, s, versionID) ==
    [Name |-> m.Name, SourceDir |-> m.SourceDir, File |-> m.File, Kind |-> m.Kind,
     Schema |-> s, Contents |-> m.Contents, CheckSum |-> m.CheckSum,
     VersionID |-> versionID]

\* The statement executed for migration m against schema s.
ExecutedSQL(m, s, cfgPlaceHolder) ==
    [File |-> m.File, Schema |-> s,
     SQL |-> Replace(m.Contents, getSchemaPlaceHolder(cfgPlaceHolder), s)]

\* DeferredEnd committing whatever was recovered.
DeferredEndCommitsOnPanic(r, dryRun) ==
    IF r = NoPanic
    THEN IF dryRun THEN [end |-> "rollback", raise |-> NoPanic]
                   ELSE [end |-> "commit", raise |-> NoPanic]
    ELSE [end |-> "commit", raise |-> r]

\* DeferredEnd recovering without raising again.
DeferredEndSwallowsPanic(r, dryRun) ==
    IF r = NoPanic
    THEN IF dryRun THEN [end |-> "rollback", raise |-> NoPanic]
                   ELSE [end |-> "commit", raise |-> NoPanic]
    ELSE [end |-> "rollback", raise |-> NoPanic]

\* DeferredEnd without the dry-run branch.
DeferredEndIgnoresDryRun(r, dryRun) ==
    IF r = NoPanic
    THEN [end |-> "commit", raise |-> NoPanic]
    ELSE [end |-> "rollback", raise |-> r]

\* What the deferred function of CreateVersion and CreateTenant does with the
\* recovered value r: how it ends the transaction and what it raises again.
DeferredEnd(r, dryRun) ==
    IF r = NoPanic
    THEN IF dryRun THEN [end |-> "rollback", raise |-> NoPanic]
                   ELSE [end |-> "commit", raise |-> NoPanic]
    ELSE [end |-> "rollback", raise |-> r]

\* A slice declared without a value (var s []T) and appended to: nil as long
\* as nothing was appended.
DeclaredSlice(items) == [null |-> items = <<>>, items |-> items]

\* A slice made empty (s := []T{}) and appended to: never nil.
MakeSlice(items) == [null |-> FALSE, items |-> items]

\* CreateVersion's first lines: nothing to apply, nothing to do.
NothingToApply(migrations) == Len(migrations) = 0

\* The rows of versions joined with their migrations, for one version ID.
VersionByIDRows(versions, migrations, id) ==
    LET vs == SelectSeq(versions, LAMBDA v : v.ID = id)
        ms == SelectSeq(migrations, LAMBDA r : r.VersionID = id)
    IN IF vs = <<>> THEN <<>>
       ELSE [k \in 1 .. Len(ms) |-> [vid |-> vs[1].ID, vname |-> vs[1].Name, row |-> ms[k]]]

\* The rows of every version joined with its migrations, in the order of the
\* migrations table.
VersionsRows(versions, migrations) ==
    LET joined == SelectSeq(migrations, LAMBDA r :
                      \E k \in 1 .. Len(versions) : versions[k].ID = r.VersionID)
        nameOf(id) == (CHOOSE k \in 1 .. Len(versions) : versions[k].ID = id)
    IN [k \in 1 .. Len(joined) |->
          [vid |-> joined[k].VersionID,
           vname |-> versions[nameOf(joined[k].VersionID)].Name,
           row |-> joined[k]]]

\* The joined rows of the versions that hold a row of file.
VersionsByFileRows(versions, migrations, file) ==
    LET rows == VersionsRows(versions, migrations)
    IN SelectSeq(rows, LAMBDA r :
          \E k \in 1 .. Len(rows) : rows[k].vid = r.vid /\ rows[k].row.File = file)

\* SortDesc with the smallest id first.
RECURSIVE SortAsc(_)
SortAsc(ids) ==
    IF ids = {} THEN <<>>
    ELSE LET low == CHOOSE x \in ids : \A y \in ids : x <= y
         IN <<low>> \o SortAsc(ids \ {low})

RECURSIVE SortDesc(_)
SortDesc(ids) ==
    IF ids = {} THEN <<>>
    ELSE LET top == CHOOSE x \in ids : \A y \in ids : y <= x
         IN <<top>> \o SortDesc(ids \ {top})

\* readVersions: group the joined rows by version, newest version first.
readVersions(rows) ==
    LET ids == SortDesc({rows[k].vid : k \in 1 .. Len(rows)})
        of(id) == SelectSeq(rows, LAMBDA r : r.vid = id)
    IN [n \in 1 .. Len(ids) |->
          [ID |-> ids[n], Name |-> of(ids[n])[1].vname,
           DBMigrations |-> [k \in 1 .. Len(of(ids[n])) |-> of(ids[n])[k].row]]]

NoVersion == [ID |-> 0, Name |-> "", DBMigrations |-> <<>>]

\* ------------------------------------------------- coordinator, pure parts

\* The files of migration kind whose checksum differs from an applied row's.
OffendingFiles(src, applied) ==
    SelectSeq(src, LAMBDA m :
        /\ IsMigrationKind(m.Kind)
        /\ \E k \in 1 .. Len(applied) :
              applied[k].File = m.File /\ applied[k].CheckSum /= m.CheckSum)

VerifySourceMigrationsCheckSums(src, applied) ==
    [ok |-> OffendingFiles(src, applied) = <<>>,
     offending |-> OffendingFiles(src, applied)]

\* ComputePending leaving out every file that has an applied row, scripts too.
ComputePendingUnappliedOnly(src, applied) ==
    SelectSeq(src, LAMBDA m : \A k \in 1 .. Len(applied) : applied[k].File /= m.File)

\* The pending set: unapplied files of migration kind, and every script.
ComputePending(src, applied) ==
    SelectSeq(src, LAMBDA m :
        \/ ~IsMigrationKind(m.Kind)
        \/ \A k \in 1 .. Len(applied) : applied[k].File /= m.File)

filterTenantMigrations(src) == SelectSeq(src, LAMBDA m : IsTenantKind(m.Kind))

\* What the observers have seen of a call: nothing.
NoObservers ==
    [versions_created |-> 0, tenants_created |-> 0, migrations_applied |-> 0,
     notifier |-> "none"]

\* The metrics counters raised for a call and what became of its webhook
\* notification.
Observers(op, results, delivered) ==
    [versions_created |-> IF op = "CreateVersion" THEN 1 ELSE 0,
     tenants_created |-> IF op = "CreateTenant" THEN 1 ELSE 0,
     migrations_applied |-> results.MigrationsGrandTotal + results.ScriptsGrandTotal,
     notifier |-> IF delivered THEN "sent" ELSE "failed"]

\* The observers invoked however the transaction ended.
ObserversRunAlways(end, raise) == TRUE

\* Whether the coordinator invokes the observers: on commit only.
ObserversRun(end, raise) == end = "committed" /\ raise = NoPanic

\* The handler going on to apply whatever the verification said.
PostHandlerNeverRefuses(ok) == FALSE

\* migrationsPostHandler: 424 when verification failed, otherwise apply.
PostHandlerRefuses(ok) == ~ok

\* ------------------------------------------------------------------ state

VARIABLES
    disk,           \* the files under the base directory: file -> contents
    edits,          \* how many files were modified so far
    lastInsertID,   \* the dialect's LastInsertIDSupported()
    dbTenants,      \* persisted tenant rows, in table order
    dbVersions,     \* persisted rows of migrator_versions
    dbMigrations,   \* persisted rows of migrator_migrations, in insertion order
    dbExec,         \* the statements whose effects are persisted
    versionSeq,     \* the last id the versions sequence handed out
    call,           \* the request each process is serving
    lastRun         \* the last CreateVersion that ran to its end, if still current

vars == <<disk, edits, lastInsertID, dbTenants, dbVersions, dbMigrations, dbExec,
          versionSeq, call, lastRun>>

dbVars == <<dbTenants, dbVersions, dbMigrations, dbExec>>

\* The persisted tables, as a call finds them when it starts.
Snapshot ==
    [tenants |-> dbTenants, versions |-> dbVersions,
     migrations |-> dbMigrations, exec |-> dbExec]

NoRun == [valid |-> FALSE, src |-> <<>>, tenants |-> <<>>, rows |-> <<>>]

MigrationKindRows(rows) == SelectSeq(rows, LAMBDA r : IsMigrationKind(r.Kind))

IdleCall ==
    [pc |-> "idle", op |-> "none", action |-> "none", dryRun |-> FALSE, tenant |-> "",
     schemaPlaceHolder |-> "", named |-> <<>>,
     driver |-> "", tenantSelectSQL |-> "", tenantInsertSQL |-> "", tenantSQL |-> "",
     opened |-> FALSE, initTx |-> "none", observed |-> NoObservers,
     id |-> 0, returned |-> [null |-> TRUE, items |-> <<>>],
     src |-> <<>>, migrations |-> <<>>, tenants |-> <<>>,
     tx |-> "none", txEnds |-> 0,
     txTenants |-> <<>>, txVersions |-> <<>>, txMigrations |-> <<>>, txExec |-> <<>>,
     versionID |-> 0, i |-> 1, j |-> 1, executed |-> FALSE,
     results |-> ZeroResults, version |-> NoVersion, rows |-> <<>>, versions |-> <<>>,
     panic |-> NoPanic, failedAt |-> "", raised |-> NoPanic,
     outcome |-> "none", status |-> 0, verified |-> FALSE, offending |-> <<>>,
     coordinators |-> 0, disposed |-> 0, escaped |-> FALSE, cancelled |-> FALSE,
     request |-> [name |-> "", response |-> "", mode |-> ""],
     log |-> <<>>,
     pre |-> [tenants |-> <<>>, versions |-> <<>>, migrations |-> <<>>, exec |-> <<>>],
     prev |-> NoRun]

Init ==
    /\ disk = [f \in FileIds |-> NoFile]
    /\ edits = 0
    /\ lastInsertID \in BOOLEAN
    /\ dbTenants \in {<<>>, <<"a">>}
    /\ dbVersions = <<>>
    /\ dbMigrations = <<>>
    /\ dbExec = <<>>
    /\ versionSeq = 0
    /\ call = [p \in Procs |-> IdleCall]
    /\ lastRun = NoRun

\* ------------------------------------------------------------ source tree

\* The loader reads the directories in one step of a request (LoadSource) and
\* nothing else of a request looks at the disk, so a file written while a
\* request is past that step is seen exactly as one written after the request.
\* The source tree therefore moves only between requests and their reads.
DiskQuiet == \A q \in Procs : call[q].pc = "idle"

\* A new file appears under one of the configured directories.
AddFile(f) ==
    /\ DiskQuiet
    /\ disk[f] = NoFile
    /\ disk' = [disk EXCEPT ![f] = ContentsOf(f, 1)]
    /\ lastRun' = NoRun
    /\ UNCHANGED <<edits, lastInsertID, dbVars, versionSeq, call>>

\* A file already on disk is modified.
EditFile(f) ==
    /\ DiskQuiet
    /\ disk[f] = ContentsOf(f, 1)
    /\ edits < MaxEdits
    /\ disk' = [disk EXCEPT ![f] = ContentsOf(f, 2)]
    /\ edits' = edits + 1
    /\ lastRun' = NoRun
    /\ UNCHANGED <<lastInsertID, dbVars, versionSeq, call>>

\* ------------------------------------------------- handlers and coordinator

Active == {q \in Procs : call[q].pc /= "idle"}

\* Whether the handler of an operation defers coordinator.Dispose() right after
\* it created the coordinator: the v1 handlers do, the health handler does not.
DefersDispose(op) ==
    op \in {"CreateVersion", "CreateTenant", "GetSourceMigrations", "GetTenants"}

\* The coordinators disposed when the handler of call c is left, by return or
\* by panic.
DisposedOnExit(c) == IF DefersDispose(c.op) THEN c.coordinators ELSE 0

\* The recovery middleware's answer to a recovered value: 500 with the value
\* as the error text. The text is taken by err.(string), which panics in turn
\* when the value is no string: nothing is written then.
RecoveredStatus(r) == IF r.kind = "string" THEN 500 ELSE 0

\* Whether a raised value leaves the recovery middleware as a panic.
Escapes(r) == r.kind \notin {"none", "string"}

\* A request may start while the versions sequence has ids left for it.
CanStart(p) ==
    /\ call[p].pc = "idle"
    /\ versionSeq + Cardinality(Active) < MaxVersions

\* POST /v1/migrations, createVersion: the request is accepted.
StartCreateVersion(p) ==
    /\ CanStart(p)
    /\ \E action \in {ActionApply, ActionSync}, dryRun \in BOOLEAN :
          call' = [call EXCEPT ![p] =
                      [IdleCall EXCEPT !.pc = "load", !.op = "CreateVersion",
                                       !.coordinators = 1,
                                       !.action = action, !.dryRun = dryRun,
                                       !.pre = Snapshot, !.prev = lastRun]]
    /\ UNCHANGED <<disk, edits, lastInsertID, dbVars, versionSeq, lastRun>>

\* c.ShouldBindJSON(&tenant), for a body that carries response and mode: name
\* is a required field, nothing else is asked of it.
BindsTenantRequest(name) == name /= ""

\* POST /v1/tenants with the given name: 400 when the body does not bind,
\* otherwise a coordinator is created and the tenant is added.
AddTenantRequest(p, t) ==
    /\ CanStart(p)
    /\ \E action \in {ActionApply, ActionSync}, dryRun \in BOOLEAN :
          IF BindsTenantRequest(t)
          THEN call' = [call EXCEPT ![p] =
                          [IdleCall EXCEPT !.pc = "load", !.op = "CreateTenant",
                                           !.coordinators = 1,
                                           !.action = action, !.dryRun = dryRun,
                                           !.tenant = t,
                                           !.pre = Snapshot, !.prev = lastRun]]
          ELSE call' = [call EXCEPT ![p] =
                          [IdleCall EXCEPT !.pc = "done", !.op = "CreateTenant",
                                           !.tenant = t, !.outcome = "rejected",
                                           !.status = 400,
                                           !.pre = Snapshot, !.prev = lastRun]]
    /\ UNCHANGED <<disk, edits, lastInsertID, dbVars, versionSeq, lastRun>>

\* POST /v1/tenants, createTenant, for one of the tenants of the model.
StartAddTenant(p) == \E t \in TenantNames : AddTenantRequest(p, t)

\* The coordinator reads the source migrations; AddTenantAndApplyMigrations
\* keeps the tenant kinds and goes on to the connector's CreateTenant.
LoadSource(p) ==
    /\ call[p].pc = "load"
    /\ LET src == GetSourceMigrations(disk)
       IN call' = [call EXCEPT
                      ![p].src = src,
                      ![p].migrations =
                          IF call[p].op = "CreateTenant"
                          THEN filterTenantMigrations(src) ELSE <<>>,
                      ![p].pc = IF call[p].op = "CreateTenant" THEN "begin" ELSE "verify"]
    /\ UNCHANGED <<disk, edits, lastInsertID, dbVars, versionSeq, lastRun>>

\* The call ends by a panic raised outside any transaction.
PanicOutsideTx(p, msg, where) ==
    call' = [call EXCEPT ![p].pc = "done", ![p].outcome = "panicked",
                         ![p].panic = StrPanic(msg), ![p].failedAt = where,
                         ![p].raised = StrPanic(msg),
                         ![p].status = RecoveredStatus(StrPanic(msg)),
                         ![p].escaped = Escapes(StrPanic(msg)),
                         ![p].disposed = DisposedOnExit(call[p])]

\* VerifySourceMigrationsCheckSums, and the handler's answer to it.
Verify(p) ==
    /\ call[p].pc = "verify"
    /\ LET v == VerifySourceMigrationsCheckSums(call[p].src, dbMigrations)
       IN IF PostHandlerRefuses(v.ok)
          THEN call' = [call EXCEPT ![p].pc = "done", ![p].outcome = "refused",
                                    ![p].verified = TRUE,
                                    ![p].disposed = DisposedOnExit(call[p]),
                                    ![p].status = 424, ![p].offending = v.offending]
          ELSE call' = [call EXCEPT ![p].pc = "pending", ![p].verified = TRUE]
    /\ UNCHANGED <<disk, edits, lastInsertID, dbVars, versionSeq, lastRun>>

\* The coordinator computes the migrations to apply.
Pending(p) ==
    /\ call[p].pc = "pending"
    /\ call' = [call EXCEPT
                   ![p].migrations = ComputePending(call[p].src, dbMigrations),
                   ![p].pc = "createVersion"]
    /\ UNCHANGED <<disk, edits, lastInsertID, dbVars, versionSeq, lastRun>>

\* A query outside the transaction fails: GetAppliedMigrations, GetTenants.
QueryFails(p) ==
    /\ \/ call[p].pc \in {"verify", "pending"}
       \/ call[p].pc = "createVersion" /\ ~NothingToApply(call[p].migrations)
    /\ PanicOutsideTx(p, "Could not query", "query")
    /\ UNCHANGED <<disk, edits, lastInsertID, dbVars, versionSeq, lastRun>>

\* ------------------------------------------------------------- connector

\* The CreateVersion run that just ended, if its source is still the disk's.
ThisRun(p, rows) ==
    IF call[p].op = "CreateVersion" /\ ~call[p].dryRun
       /\ call[p].src = GetSourceMigrations(disk)
    THEN [valid |-> TRUE, src |-> call[p].src, tenants |-> dbTenants,
          rows |-> MigrationKindRows(rows)]
    ELSE lastRun

\* CreateVersion with no migrations: empty results, no transaction.
ReturnEmpty(p) ==
    /\ call[p].pc = "createVersion"
    /\ NothingToApply(call[p].migrations)
    /\ call' = [call EXCEPT ![p].pc = "done", ![p].outcome = "returned",
                            ![p].results = ZeroResults, ![p].status = 200,
                            ![p].disposed = DisposedOnExit(call[p])]
    /\ lastRun' = ThisRun(p, dbMigrations)
    /\ UNCHANGED <<disk, edits, lastInsertID, dbVars, versionSeq>>

\* CreateVersion: tenants := bc.GetTenants()
GetTenants(p) ==
    /\ call[p].pc = "createVersion"
    /\ ~NothingToApply(call[p].migrations)
    /\ call' = [call EXCEPT
                   ![p].tenants = dbTenants,
                   ![p].tenantSQL = getTenantSelectSQL(call[p].tenantSelectSQL),
                   ![p].pc = "begin"]
    /\ UNCHANGED <<disk, edits, lastInsertID, dbVars, versionSeq, lastRun>>

\* tx, err := bc.db.Begin()
Begin(p) ==
    /\ call[p].pc = "begin"
    /\ call' = [call EXCEPT
                   ![p].tx = "open",
                   ![p].pc = IF call[p].op = "CreateTenant"
                             THEN "createSchema" ELSE "insertVersion"]
    /\ UNCHANGED <<disk, edits, lastInsertID, dbVars, versionSeq, lastRun>>

BeginFails(p) ==
    /\ call[p].pc = "begin"
    /\ PanicOutsideTx(p, "Could not start transaction", "begin")
    /\ UNCHANGED <<disk, edits, lastInsertID, dbVars, versionSeq, lastRun>>

\* A panic inside the transaction: the deferred function runs next.
PanicInTx(p, val, where) ==
    call' = [call EXCEPT ![p].panic = val, ![p].failedAt = where, ![p].pc = "defer"]

\* CreateSchemaSQL naming no schema.
CreateSchemaSQLNoName(tenant) ==
    [File |-> <<<<>>, 0>>, Schema |-> "", SQL |-> <<"create schema", "">>]

CreateSchemaSQL(tenant) ==
    [File |-> <<<<>>, 0>>, Schema |-> tenant, SQL |-> <<"create schema", tenant>>]

\* CreateTenant: tx.Exec(createSchema)
CreateSchema(p) ==
    /\ call[p].pc = "createSchema"
    /\ call' = [call EXCEPT
                   ![p].txExec = Append(@, CreateSchemaSQL(call[p].tenant)),
                   ![p].log = Append(@, [ev |-> "schema", i |-> 0, schema |-> call[p].tenant]),
                   ![p].pc = "insertTenant"]
    /\ UNCHANGED <<disk, edits, lastInsertID, dbVars, versionSeq, lastRun>>

CreateSchemaFails(p) ==
    /\ call[p].pc = "createSchema"
    /\ PanicInTx(p, StrPanic("Create schema failed"), "createSchema")
    /\ UNCHANGED <<disk, edits, lastInsertID, dbVars, versionSeq, lastRun>>

\* The tenant rows the transaction of p sees.
VisibleTenants(p) == dbTenants \o call[p].txTenants

\* CreateTenant: the tenant row is inserted (name is the table's key), and the
\* migrations are applied for this tenant alone.
InsertTenant(p) ==
    /\ call[p].pc = "insertTenant"
    /\ call[p].tenant \notin SeqToSet(VisibleTenants(p))
    /\ call' = [call EXCEPT
                   ![p].txTenants = Append(@, call[p].tenant),
                   ![p].log = Append(@, [ev |-> "tenant", i |-> 0, schema |-> call[p].tenant]),
                   ![p].tenants = <<call[p].tenant>>,
                   ![p].tenantSQL = getTenantInsertSQL(call[p].tenantInsertSQL),
                   ![p].pc = "insertVersion"]
    /\ UNCHANGED <<disk, edits, lastInsertID, dbVars, versionSeq, lastRun>>

InsertTenantFails(p) ==
    /\ call[p].pc = "insertTenant"
    /\ PanicInTx(p, StrPanic("Failed to add tenant entry"), "insertTenant")
    /\ UNCHANGED <<disk, edits, lastInsertID, dbVars, versionSeq, lastRun>>

\* applyMigrationsInTx: the version row is inserted and its id read back.
InsertVersion(p) ==
    /\ call[p].pc = "insertVersion"
    /\ versionSeq' = versionSeq + 1
    /\ call' = [call EXCEPT
                   ![p].results = NewResults(call[p].tenants),
                   ![p].versionID = versionSeq + 1,
                   ![p].txVersions = Append(@, [ID |-> versionSeq + 1, Name |-> "v"]),
                   ![p].i = 1, ![p].j = 1, ![p].executed = FALSE,
                   ![p].pc = "loop"]
    /\ UNCHANGED <<disk, edits, lastInsertID, dbVars, lastRun>>

\* The version insert fails. Its error is dropped: where the id comes from
\* result.LastInsertId() the nil result panics, elsewhere the id stays 0 and
\* the loop goes on.
InsertVersionFails(p) ==
    /\ call[p].pc = "insertVersion"
    /\ IF lastInsertID
       THEN call' = [call EXCEPT
                        ![p].results = NewResults(call[p].tenants),
                        ![p].log = Append(@, [ev |-> "versionFailed", i |-> 0, schema |-> ""]),
                        ![p].panic = RuntimePanic("nil pointer dereference"),
                        ![p].failedAt = "insertVersion",
                        ![p].pc = "defer"]
       ELSE call' = [call EXCEPT
                        ![p].results = NewResults(call[p].tenants),
                        ![p].log = Append(@, [ev |-> "versionFailed", i |-> 0, schema |-> ""]),
                        ![p].versionID = 0,
                        ![p].i = 1, ![p].j = 1, ![p].executed = FALSE,
                        ![p].pc = "loop"]
    /\ UNCHANGED <<disk, edits, lastInsertID, dbVars, versionSeq, lastRun>>

\* bc.db.Prepare fails for the version insert or the migration insert.
PrepareFails(p) ==
    /\ call[p].pc = "insertVersion"
    /\ PanicInTx(p, StrPanic("Could not create prepared statement"), "prepare")
    /\ UNCHANGED <<disk, edits, lastInsertID, dbVars, versionSeq, lastRun>>

\* The loop's position: migration i, schema j of it.
InLoop(p) == call[p].pc = "loop" /\ call[p].i <= Len(call[p].migrations)
CurMigration(p) == call[p].migrations[call[p].i]
CurSchemas(p) == Schemas(CurMigration(p), call[p].tenants)
AtSchema(p) == InLoop(p) /\ call[p].j <= Len(CurSchemas(p))
CurSchema(p) == CurSchemas(p)[call[p].j]

\* Executes running the SQL whatever the action.
ExecutesAlways(action) == TRUE

\* Whether the loop runs the migration's SQL before recording it.
Executes(action) == action = ActionApply

\* tx.Exec(contents) with the placeholder replaced by the schema.
ExecSQL(p) ==
    /\ AtSchema(p)
    /\ Executes(call[p].action)
    /\ ~call[p].executed
    /\ call' = [call EXCEPT
                   ![p].txExec = Append(@, ExecutedSQL(CurMigration(p), CurSchema(p),
                                                      call[p].schemaPlaceHolder)),
                   ![p].log = Append(@, [ev |-> "exec", i |-> call[p].i, schema |-> CurSchema(p)]),
                   ![p].executed = TRUE]
    /\ UNCHANGED <<disk, edits, lastInsertID, dbVars, versionSeq, lastRun>>

ExecFails(p) ==
    /\ AtSchema(p)
    /\ Executes(call[p].action)
    /\ ~call[p].executed
    /\ PanicInTx(p, StrPanic("SQL migration failed"), "exec")
    /\ UNCHANGED <<disk, edits, lastInsertID, dbVars, versionSeq, lastRun>>

\* The version rows the transaction of p sees.
VisibleVersions(p) == dbVersions \o call[p].txVersions
VisibleMigrations(p) == dbMigrations \o call[p].txMigrations

\* The migration row is inserted; version_id references a version row.
InsertMigration(p) ==
    /\ AtSchema(p)
    /\ Executes(call[p].action) => call[p].executed
    /\ \E k \in 1 .. Len(VisibleVersions(p)) : VisibleVersions(p)[k].ID = call[p].versionID
    /\ call' = [call EXCEPT
                   ![p].txMigrations =
                       Append(@, MigrationRow(CurMigration(p), CurSchema(p), call[p].versionID)),
                   ![p].log = Append(@, [ev |-> "insert", i |-> call[p].i, schema |-> CurSchema(p)]),
                   ![p].j = @ + 1,
                   ![p].executed = FALSE]
    /\ UNCHANGED <<disk, edits, lastInsertID, dbVars, versionSeq, lastRun>>

InsertMigrationFails(p) ==
    /\ AtSchema(p)
    /\ Executes(call[p].action) => call[p].executed
    /\ PanicInTx(p, StrPanic("Failed to add migration entry"), "insert")
    /\ UNCHANGED <<disk, edits, lastInsertID, dbVars, versionSeq, lastRun>>

\* All schemas of migration i are done: the counters, then the next migration.
NextMigration(p) ==
    /\ InLoop(p)
    /\ call[p].j > Len(CurSchemas(p))
    /\ call' = [call EXCEPT
                   ![p].results = CountMigration(@, CurMigration(p), Len(CurSchemas(p))),
                   ![p].i = @ + 1,
                   ![p].j = 1]
    /\ UNCHANGED <<disk, edits, lastInsertID, dbVars, versionSeq, lastRun>>

\* applyMigrationsInTx returns: its deferred function fills in the totals.
ApplyReturn(p) ==
    /\ call[p].pc = "loop"
    /\ call[p].i > Len(call[p].migrations)
    /\ call' = [call EXCEPT ![p].results = GrandTotals(@), ![p].pc = "getVersion"]
    /\ UNCHANGED <<disk, edits, lastInsertID, dbVars, versionSeq, lastRun>>

\* getVersionByIDInTx: the version must be found among the joined rows.
GetVersionInTx(p) ==
    /\ call[p].pc = "getVersion"
    /\ LET versions == readVersions(VersionByIDRows(VisibleVersions(p),
                                                    VisibleMigrations(p),
                                                    call[p].versionID))
       IN IF Len(versions) = 0
          THEN PanicInTx(p, StrPanic("Version not found"), "getVersion")
          ELSE call' = [call EXCEPT ![p].version = versions[1], ![p].pc = "defer"]
    /\ UNCHANGED <<disk, edits, lastInsertID, dbVars, versionSeq, lastRun>>

GetVersionFails(p) ==
    /\ call[p].pc = "getVersion"
    /\ PanicInTx(p, StrPanic("Could not query versions"), "getVersion")
    /\ UNCHANGED <<disk, edits, lastInsertID, dbVars, versionSeq, lastRun>>

\* How a call ends once its transaction is over: raise again, or return.
EndCall(c, end, raise) ==
    [c EXCEPT !.pc = IF ObserversRun(end, raise) THEN "observe" ELSE "done",
              !.tx = end,
              !.txEnds = @ + 1,
              !.raised = raise,
              !.outcome = IF raise = NoPanic THEN "returned" ELSE "panicked",
              !.status = IF raise = NoPanic THEN 200 ELSE RecoveredStatus(raise),
              !.escaped = Escapes(raise),
              !.disposed = DisposedOnExit(c)]

\* The deferred function rolls the transaction back.
DeferredRollback(p) ==
    /\ call[p].pc = "defer"
    /\ LET d == DeferredEnd(call[p].panic, call[p].dryRun)
       IN /\ d.end = "rollback"
          /\ call' = [call EXCEPT ![p] = EndCall(call[p], "rolledback", d.raise)]
    /\ UNCHANGED <<disk, edits, lastInsertID, dbVars, versionSeq, lastRun>>

\* The deferred function commits: the transaction's writes are persisted.
DeferredCommit(p) ==
    /\ call[p].pc = "defer"
    /\ LET d == DeferredEnd(call[p].panic, call[p].dryRun)
       IN /\ d.end = "commit"
          /\ call' = [call EXCEPT ![p] = EndCall(call[p], "committed", d.raise)]
    /\ dbTenants' = dbTenants \o call[p].txTenants
    /\ dbVersions' = dbVersions \o call[p].txVersions
    /\ dbMigrations' = dbMigrations \o call[p].txMigrations
    /\ dbExec' = dbExec \o call[p].txExec
    /\ lastRun' = IF call[p].op = "CreateTenant" THEN NoRun
                  ELSE ThisRun(p, dbMigrations \o call[p].txMigrations)
    /\ UNCHANGED <<disk, edits, lastInsertID, versionSeq>>

\* The connector has returned: the coordinator raises the metrics counters
\* and posts the results to the webhook; a notification that fails is logged
\* and the call goes on as before.
Observe(p) ==
    /\ call[p].pc = "observe"
    /\ \E delivered \in BOOLEAN :
          call' = [call EXCEPT
                      ![p].observed = Observers(call[p].op, call[p].results, delivered),
                      ![p].pc = "done"]
    /\ UNCHANGED <<disk, edits, lastInsertID, dbVars, versionSeq, lastRun>>

\* CommitFails with the error of tx.Commit() dropped: the call returns.
CommitFailsSilently(p) ==
    /\ call[p].pc = "defer"
    /\ LET d == DeferredEnd(call[p].panic, call[p].dryRun)
       IN /\ d.end = "commit"
          /\ call' = [call EXCEPT ![p] = EndCall(call[p], "commitFailed", NoPanic)]
    /\ UNCHANGED <<disk, edits, lastInsertID, dbVars, versionSeq, lastRun>>

\* tx.Commit() fails: nothing is persisted and the deferred function panics.
CommitFails(p) ==
    /\ call[p].pc = "defer"
    /\ LET d == DeferredEnd(call[p].panic, call[p].dryRun)
       IN /\ d.end = "commit"
          /\ call' = [call EXCEPT ![p] =
                EndCall(call[p], "commitFailed", StrPanic("Could not commit transaction"))]
    /\ UNCHANGED <<disk, edits, lastInsertID, dbVars, versionSeq, lastRun>>

\* A read ends: the id it was asked for (if any), the rows that were read and
\* what is returned of them. The reads by id return a pointer, nil with an
\* error when nothing was found; the others return a slice.
ReadDone(p, op, id, rows, items, outcome) ==
    /\ call[p].pc = "idle"
    /\ call' = [call EXCEPT ![p] =
                   [IdleCall EXCEPT !.pc = "done", !.op = op, !.id = id,
                                    !.rows = rows,
                                    !.versions = IF op \in {"GetVersions", "GetVersionsByFile",
                                                            "GetVersionByID"}
                                                 THEN items ELSE <<>>,
                                    !.returned = IF op \in {"GetVersionByID", "GetDBMigrationByID"}
                                                 THEN [null |-> items = <<>>, items |-> items]
                                                 ELSE MakeSlice(items),
                                    !.outcome = outcome,
                                    !.pre = Snapshot, !.prev = lastRun]]
    /\ UNCHANGED <<disk, edits, lastInsertID, dbVars, versionSeq, lastRun>>

GetVersions(p) ==
    LET rows == VersionsRows(dbVersions, dbMigrations)
    IN ReadDone(p, "GetVersions", 0, rows, readVersions(rows), "returned")

GetVersionsByFile(p) ==
    \E f \in FileIds :
        LET rows == VersionsByFileRows(dbVersions, dbMigrations,
                                       Migration(f, ContentsOf(f, 1)).File)
        IN ReadDone(p, "GetVersionsByFile", 0, rows, readVersions(rows), "returned")

\* GetVersionByID: the first version read, or the error that none was found.
GetVersionByID(p) ==
    \E id \in 1 .. MaxVersions + 1 :
        LET rows == VersionByIDRows(dbVersions, dbMigrations, id)
            versions == readVersions(rows)
        IN IF Len(versions) = 0
           THEN ReadDone(p, "GetVersionByID", id, rows, <<>>, "notFound")
           ELSE ReadDone(p, "GetVersionByID", id, rows, <<versions[1]>>, "returned")

\* GetDBMigrationByID: the row of that id (its place in the table), or the
\* error that none was found.
GetDBMigrationByID(p) ==
    \E id \in 1 .. Len(dbMigrations) + 1 :
        IF id > Len(dbMigrations)
        THEN ReadDone(p, "GetDBMigrationByID", id, <<>>, <<>>, "notFound")
        ELSE ReadDone(p, "GetDBMigrationByID", id, <<dbMigrations[id]>>,
                      <<dbMigrations[id]>>, "returned")

GetAppliedMigrations(p) ==
    ReadDone(p, "GetAppliedMigrations", 0, dbMigrations, dbMigrations, "returned")

\* GetTenants called for itself: the tenants read.
ReadTenants(p) == ReadDone(p, "GetTenants", 0, dbTenants, dbTenants, "returned")

\* GET /health: a coordinator is created, the database is pinged and the
\* status is the answer.
Health(p) ==
    /\ call[p].pc = "idle"
    /\ \E up \in BOOLEAN :
          call' = [call EXCEPT ![p] =
                      [IdleCall EXCEPT !.pc = "done", !.op = "HealthCheck",
                                       !.coordinators = 1,
                                       !.disposed = DisposedOnExit(
                                           [op |-> "HealthCheck", coordinators |-> 1]),
                                       !.outcome = "returned",
                                       !.status = IF up THEN 200 ELSE 503,
                                       !.pre = Snapshot, !.prev = lastRun]]
    /\ UNCHANGED <<disk, edits, lastInsertID, dbVars, versionSeq, lastRun>>

\* ------------------------------------------------ connector construction

\* A request to /v1/tenants arrives (GET, or POST for a tenant) and its
\* coordinator constructs a connector: New begins with newDialect(config).
\* The configuration may name statements of its own for the tenants.
NewConnector(p) ==
    /\ CanStart(p)
    /\ \E driver \in {"postgres", "abcxyz"},
          sel \in {"", "select somename from someschema.sometable"},
          ins \in {"", "insert into someschema.sometable (somename) values ($1)"},
          t \in TenantNames \cup {""}, action \in {ActionApply, ActionSync},
          dryRun \in BOOLEAN :
          /\ t = "" => action = ActionApply /\ ~dryRun
          /\ LET c == [IdleCall EXCEPT
                          !.op = IF t = "" THEN "GetTenants" ELSE "CreateTenant",
                          !.tenant = t, !.action = action, !.dryRun = dryRun,
                          !.driver = driver, !.tenantSelectSQL = sel,
                          !.tenantInsertSQL = ins,
                          !.pre = Snapshot, !.prev = lastRun]
                 d == newDialect(driver)
             IN call' = [call EXCEPT ![p] =
                   IF d.panic = NoPanic
                   THEN [c EXCEPT !.pc = "connect"]
                   ELSE [c EXCEPT !.pc = "done", !.outcome = "panicked",
                                  !.panic = d.panic, !.raised = d.panic,
                                  !.named = d.named, !.failedAt = "newDialect",
                                  !.status = RecoveredStatus(d.panic),
                                  !.escaped = Escapes(d.panic)]]
    /\ UNCHANGED <<disk, edits, lastInsertID, dbVars, versionSeq, lastRun>>

\* connect: sql.Open gives the handle.
Connect(p) ==
    /\ call[p].pc = "connect"
    /\ call' = [call EXCEPT ![p].opened = TRUE, ![p].pc = "ping"]
    /\ UNCHANGED <<disk, edits, lastInsertID, dbVars, versionSeq, lastRun>>

\* init: the database answers the ping and a transaction is begun.
InitBegin(p) ==
    /\ call[p].pc = "ping"
    /\ call' = [call EXCEPT ![p].initTx = "open", ![p].i = 1, ![p].pc = "bootstrap"]
    /\ UNCHANGED <<disk, edits, lastInsertID, dbVars, versionSeq, lastRun>>

\* sql.Open fails, or the ping, or the Begin of init.
InitFails(p) ==
    /\ \/ /\ call[p].pc = "connect"
          /\ PanicOutsideTx(p, "Failed to open connction to DB", "connect")
       \/ /\ call[p].pc = "ping"
          /\ \E msg \in {"Failed to connect to database", "Could not start DB transaction"} :
                PanicOutsideTx(p, msg, "ping")
    /\ UNCHANGED <<disk, edits, lastInsertID, dbVars, versionSeq, lastRun>>

\* The bootstrap statement init is at.
AtBootstrap(p) ==
    /\ call[p].pc = "bootstrap"
    /\ call[p].i <= Len(BootstrapSQLs(call[p].tenantSelectSQL))

\* init: bc.db.Query(statement). The statement goes to the pool, not to the
\* transaction init has begun, so its effect is persisted at once; every
\* statement creates its object only if it is not there.
BootstrapQuery(p) ==
    /\ AtBootstrap(p)
    /\ LET stmt == BootstrapSQLs(call[p].tenantSelectSQL)[call[p].i]
       IN dbExec' = IF stmt \in SeqToSet(dbExec) THEN dbExec ELSE Append(dbExec, stmt)
    /\ call' = [call EXCEPT
                   ![p].log = Append(@, [ev |-> "bootstrap", i |-> call[p].i,
                                         schema |-> BootstrapSQLs(call[p].tenantSelectSQL)
                                                        [call[p].i].SQL[2]]),
                   ![p].i = @ + 1]
    /\ UNCHANGED <<disk, edits, lastInsertID, dbTenants, dbVersions, dbMigrations,
                   versionSeq, lastRun>>

\* A bootstrap statement fails: init panics where it stands.
BootstrapQueryFails(p) ==
    /\ AtBootstrap(p)
    /\ PanicOutsideTx(p, "Could not create migrator schema or table", "bootstrap")
    /\ UNCHANGED <<disk, edits, lastInsertID, dbVars, versionSeq, lastRun>>

\* init: tx.Commit(); New returns the connector and the coordinator is made.
InitCommit(p) ==
    /\ call[p].pc = "bootstrap"
    /\ ~AtBootstrap(p)
    /\ call' = [call EXCEPT
                   ![p].initTx = "committed", ![p].i = 1, ![p].coordinators = 1,
                   ![p].pc = IF call[p].op = "CreateTenant" THEN "load" ELSE "getTenants"]
    /\ UNCHANGED <<disk, edits, lastInsertID, dbVars, versionSeq, lastRun>>

InitCommitFails(p) ==
    /\ call[p].pc = "bootstrap"
    /\ ~AtBootstrap(p)
    /\ call' = [call EXCEPT ![p] =
          [call[p] EXCEPT !.initTx = "commitFailed", !.pc = "done",
                          !.outcome = "panicked",
                          !.panic = StrPanic("Could not commit transaction"),
                          !.raised = StrPanic("Could not commit transaction"),
                          !.failedAt = "initCommit",
                          !.status = RecoveredStatus(StrPanic("Could not commit transaction"))]]
    /\ UNCHANGED <<disk, edits, lastInsertID, dbVars, versionSeq, lastRun>>

\* GET /v1/tenants: GetTenants runs the tenant select statement.
TenantsGet(p) ==
    /\ call[p].pc = "getTenants"
    /\ call' = [call EXCEPT
                   ![p].tenants = dbTenants,
                   ![p].tenantSQL = getTenantSelectSQL(call[p].tenantSelectSQL),
                   ![p].returned = MakeSlice(dbTenants),
                   ![p].outcome = "returned", ![p].status = 200,
                   ![p].disposed = DisposedOnExit(call[p]),
                   ![p].pc = "done"]
    /\ UNCHANGED <<disk, edits, lastInsertID, dbVars, versionSeq, lastRun>>

\* The handler has answered; the process is free for the next request.
Finish(p) ==
    /\ call[p].pc = "done"
    /\ call' = [call EXCEPT ![p] = IdleCall]
    /\ UNCHANGED <<disk, edits, lastInsertID, dbVars, versionSeq, lastRun>>

\* ---------------------------------------------------------- specification

Step(p) ==
    \/ StartCreateVersion(p)
    \/ StartAddTenant(p)
    \/ LoadSource(p)
    \/ Verify(p)
    \/ Pending(p)
    \/ QueryFails(p)
    \/ ReturnEmpty(p)
    \/ GetTenants(p)
    \/ Begin(p)
    \/ BeginFails(p)
    \/ CreateSchema(p)
    \/ CreateSchemaFails(p)
    \/ InsertTenant(p)
    \/ InsertTenantFails(p)
    \/ InsertVersion(p)
    \/ InsertVersionFails(p)
    \/ PrepareFails(p)
    \/ ExecSQL(p)
    \/ ExecFails(p)
    \/ InsertMigration(p)
    \/ InsertMigrationFails(p)
    \/ NextMigration(p)
    \/ ApplyReturn(p)
    \/ GetVersionInTx(p)
    \/ GetVersionFails(p)
    \/ DeferredRollback(p)
    \/ DeferredCommit(p)
    \/ Observe(p)
    \/ CommitFails(p)
    \/ Health(p)
    \/ Finish(p)

Next ==
    \/ \E f \in FileIds : AddFile(f)
    \/ \E f \in FileIds : EditFile(f)
    \/ \E p \in SeqProcs : Step(p)

Spec == Init /\ [][Next]_vars

\* GET /v1/migrations/source: the loader enumerates the directories in some
\* order and the handler answers with the sorted migrations.
MigrationsSource(p) ==
    /\ call[p].pc = "idle"
    /\ \E order \in Enumerations({f \in DOMAIN disk : disk[f] \notin {NoFile, NoDir}}) :
          LET r == ReadDirs(disk, order)
          IN call' = [call EXCEPT ![p] =
                      [IdleCall EXCEPT !.pc = "done", !.op = "GetSourceMigrations",
                                       !.coordinators = 1,
                                       !.disposed = DisposedOnExit(
                                           [op |-> "GetSourceMigrations", coordinators |-> 1]),
                                       !.src = r.migrations,
                                       !.panic = r.panic, !.raised = r.panic,
                                       !.named = r.named,
                                       !.failedAt = IF r.panic = NoPanic THEN "" ELSE "load",
                                       !.outcome = IF r.panic = NoPanic
                                                   THEN "returned" ELSE "panicked",
                                       !.status = IF r.panic = NoPanic
                                                  THEN 200 ELSE RecoveredStatus(r.panic),
                                       !.escaped = Escapes(r.panic),
                                       !.pre = Snapshot, !.prev = lastRun]]
    /\ UNCHANGED <<disk, edits, lastInsertID, dbVars, versionSeq, lastRun>>

\* The loader over every source tree of the six files.
InitLoader ==
    /\ disk \in [LoaderFileIds -> {NoFile} \cup {ContentsOf(f, 1) : f \in LoaderFileIds}]
    /\ \A f \in LoaderFileIds : disk[f] \in {NoFile, ContentsOf(f, 1)}
    /\ edits = 0
    /\ lastInsertID = FALSE
    /\ dbTenants = <<>>
    /\ dbVersions = <<>>
    /\ dbMigrations = <<>>
    /\ dbExec = <<>>
    /\ versionSeq = 0
    /\ call = [p \in Procs |-> IdleCall]
    /\ lastRun = NoRun

NextLoader ==
    \/ \E f \in LoaderFileIds : EditFile(f)
    \/ \E p \in SeqProcs : MigrationsSource(p) \/ Finish(p)

SpecLoader == InitLoader /\ [][NextLoader]_vars

\* Requests to /v1/tenants from the construction of their connector on, over
\* a database that was never bootstrapped and a source tree of one tenant
\* migration.
InitNew ==
    /\ disk = [f \in FileIds |-> IF f = 2 THEN ContentsOf(f, 1) ELSE NoFile]
    /\ edits = 0
    /\ lastInsertID \in BOOLEAN
    /\ dbTenants = <<>>
    /\ dbVersions = <<>>
    /\ dbMigrations = <<>>
    /\ dbExec = <<>>
    /\ versionSeq = 0
    /\ call = [p \in Procs |-> IdleCall]
    /\ lastRun = NoRun

\* The steps of a request to add a tenant once its coordinator is there.
RunAddTenant(p) ==
    \/ LoadSource(p)
    \/ Begin(p)
    \/ BeginFails(p)
    \/ CreateSchema(p)
    \/ CreateSchemaFails(p)
    \/ InsertTenant(p)
    \/ InsertTenantFails(p)
    \/ InsertVersion(p)
    \/ InsertVersionFails(p)
    \/ PrepareFails(p)
    \/ ExecSQL(p)
    \/ ExecFails(p)
    \/ InsertMigration(p)
    \/ InsertMigrationFails(p)
    \/ NextMigration(p)
    \/ ApplyReturn(p)
    \/ GetVersionInTx(p)
    \/ GetVersionFails(p)
    \/ DeferredRollback(p)
    \/ DeferredCommit(p)
    \/ Observe(p)
    \/ CommitFails(p)
    \/ Finish(p)

NextNew ==
    \E p \in SeqProcs :
        \/ NewConnector(p)
        \/ Connect(p)
        \/ InitBegin(p)
        \/ InitFails(p)
        \/ BootstrapQuery(p)
        \/ BootstrapQueryFails(p)
        \/ InitCommit(p)
        \/ InitCommitFails(p)
        \/ TenantsGet(p)
        \/ RunAddTenant(p)

SpecNew == InitNew /\ [][NextNew]_vars

\* The loader over source trees where configured directories may be missing
\* or empty.
InitMissingDir ==
    /\ disk \in [FileIds -> {NoDir, NoFile} \cup {ContentsOf(f, 1) : f \in FileIds}]
    /\ \A f \in FileIds : disk[f] \in {NoDir, NoFile, ContentsOf(f, 1)}
    /\ edits = 0
    /\ lastInsertID = FALSE
    /\ dbTenants = <<>>
    /\ dbVersions = <<>>
    /\ dbMigrations = <<>>
    /\ dbExec = <<>>
    /\ versionSeq = 0
    /\ call = [p \in Procs |-> IdleCall]
    /\ lastRun = NoRun

NextMissingDir == \E p \in SeqProcs : MigrationsSource(p) \/ Finish(p)

SpecMissingDir == InitMissingDir /\ [][NextMissingDir]_vars

\* The versions and rows the reads are run over: up to two versions and up
\* to three rows of them in any order, rows of different versions mixed.
ReadRowValues ==
    {MigrationRow(Migration(f, ContentsOf(f, 1)), IF f = 1 THEN "config" ELSE "a", v) :
        f \in {1, 2}, v \in 1 .. MaxVersions}

InitRead ==
    /\ disk = [f \in FileIds |-> NoFile]
    /\ edits = 0
    /\ lastInsertID = FALSE
    /\ dbTenants \in {<<>>, <<"a">>}
    /\ dbVersions \in {[k \in 1 .. n |-> [ID |-> k, Name |-> "v"]] : n \in 0 .. MaxVersions}
    /\ dbMigrations \in UNION {[1 .. n -> ReadRowValues] : n \in 0 .. 3}
    /\ dbExec = <<>>
    /\ versionSeq = Len(dbVersions)
    /\ call = [p \in Procs |-> IdleCall]
    /\ lastRun = NoRun

NextRead ==
    \E p \in SeqProcs :
        \/ GetVersions(p)
        \/ GetVersionsByFile(p)
        \/ GetVersionByID(p)
        \/ GetDBMigrationByID(p)
        \/ GetAppliedMigrations(p)
        \/ ReadTenants(p)
        \/ Finish(p)

SpecRead == InitRead /\ [][NextRead]_vars

\* The steps of a CreateVersion request once it was accepted.
RunCreateVersion(p) ==
    \/ LoadSource(p)
    \/ Verify(p)
    \/ Pending(p)
    \/ QueryFails(p)
    \/ ReturnEmpty(p)
    \/ GetTenants(p)
    \/ Begin(p)
    \/ BeginFails(p)
    \/ InsertVersion(p)
    \/ InsertVersionFails(p)
    \/ PrepareFails(p)
    \/ ExecSQL(p)
    \/ ExecFails(p)
    \/ InsertMigration(p)
    \/ InsertMigrationFails(p)
    \/ NextMigration(p)
    \/ ApplyReturn(p)
    \/ GetVersionInTx(p)
    \/ GetVersionFails(p)
    \/ DeferredRollback(p)
    \/ DeferredCommit(p)
    \/ Observe(p)
    \/ CommitFails(p)
    \/ Finish(p)

\* The steps of a CreateVersion request.
StepCreateVersion(p) == StartCreateVersion(p) \/ RunCreateVersion(p)

\* A source tree that does not change, and the tenant a.
InitFixedSource ==
    /\ disk \in {[f \in FileIds |-> IF f \in present THEN ContentsOf(f, 1) ELSE NoFile] :
                    present \in {{1}, {2}, {1, 2}}}
    /\ edits = 0
    /\ lastInsertID \in BOOLEAN
    /\ dbTenants = <<"a">>
    /\ dbVersions = <<>>
    /\ dbMigrations = <<>>
    /\ dbExec = <<>>
    /\ versionSeq = 0
    /\ call = [p \in Procs |-> IdleCall]
    /\ lastRun = NoRun

\* CreateVersion requests served at the same time by both processes.
NextConcurrent == \E p \in Procs : StepCreateVersion(p)

SpecConcurrent == InitFixedSource /\ [][NextConcurrent]_vars

\* The context of the request is cancelled while the apply has its
\* transaction open. The connector keeps the context for its log lines only:
\* Begin, Exec, Prepare, Query and Commit are called without it, so no
\* statement hears of the cancellation.
CancelRequest(p) ==
    /\ call[p].tx = "open"
    /\ call[p].pc \notin {"idle", "done"}
    /\ ~call[p].cancelled
    /\ call' = [call EXCEPT ![p].cancelled = TRUE]
    /\ UNCHANGED <<disk, edits, lastInsertID, dbVars, versionSeq, lastRun>>

NextCancel == \E p \in SeqProcs : StepCreateVersion(p) \/ CancelRequest(p)

SpecCancel == InitFixedSource /\ [][NextCancel]_vars

\* A CreateVersion request served by one process while the other serves
\* requests to add a tenant.
NextInterleaved ==
    \/ StepCreateVersion(1)
    \/ StartAddTenant(2)
    \/ RunAddTenant(2)

SpecInterleaved == InitFixedSource /\ [][NextInterleaved]_vars

\* Requests to add tenants under any name, over a source tree of tenant-kind
\* files.
StepAddTenant(p) ==
    \/ \E t \in RequestNames : AddTenantRequest(p, t)
    \/ LoadSource(p)
    \/ Begin(p)
    \/ BeginFails(p)
    \/ CreateSchema(p)
    \/ CreateSchemaFails(p)
    \/ InsertTenant(p)
    \/ InsertTenantFails(p)
    \/ InsertVersion(p)
    \/ InsertVersionFails(p)
    \/ PrepareFails(p)
    \/ ExecSQL(p)
    \/ ExecFails(p)
    \/ InsertMigration(p)
    \/ InsertMigrationFails(p)
    \/ NextMigration(p)
    \/ ApplyReturn(p)
    \/ GetVersionInTx(p)
    \/ GetVersionFails(p)
    \/ DeferredRollback(p)
    \/ DeferredCommit(p)
    \/ Observe(p)
    \/ CommitFails(p)
    \/ Finish(p)

NextAddTenant ==
    \/ \E f \in {g \in FileIds : IsTenantKind(FileDef(g).Kind)} : AddFile(f)
    \/ \E p \in SeqProcs : StepAddTenant(p)

SpecAddTenant == Init /\ [][NextAddTenant]_vars

\* A placeholder the configuration may name instead of the default.
OverridePlaceHolder == "[schema]"

\* Files that hold both placeholders, each more than once in the tenant file.
PlaceHolderContents(f) ==
    IF f = 1
    THEN <<"create", defaultSchemaPlaceHolder, "modules", OverridePlaceHolder>>
    ELSE <<"create", defaultSchemaPlaceHolder, "settings", OverridePlaceHolder,
           defaultSchemaPlaceHolder, OverridePlaceHolder>>

\* POST /v1/migrations served under a configuration with or without a
\* schemaPlaceHolder of its own.
StartConfigured(p) ==
    /\ CanStart(p)
    /\ \E action \in {ActionApply, ActionSync}, dryRun \in BOOLEAN,
          placeHolder \in {"", OverridePlaceHolder} :
          call' = [call EXCEPT ![p] =
                      [IdleCall EXCEPT !.pc = "load", !.op = "CreateVersion",
                                       !.coordinators = 1,
                                       !.action = action, !.dryRun = dryRun,
                                       !.schemaPlaceHolder = placeHolder,
                                       !.pre = Snapshot, !.prev = lastRun]]
    /\ UNCHANGED <<disk, edits, lastInsertID, dbVars, versionSeq, lastRun>>

InitPlaceHolder ==
    /\ disk \in {[f \in FileIds |-> IF f \in present THEN PlaceHolderContents(f) ELSE NoFile] :
                    present \in {{1}, {2}, {1, 2}}}
    /\ edits = 0
    /\ lastInsertID \in BOOLEAN
    /\ dbTenants \in {<<"a">>, <<"a", "b">>}
    /\ dbVersions = <<>>
    /\ dbMigrations = <<>>
    /\ dbExec = <<>>
    /\ versionSeq = 0
    /\ call = [p \in Procs |-> IdleCall]
    /\ lastRun = NoRun

NextPlaceHolder == \E p \in SeqProcs : StartConfigured(p) \/ RunCreateVersion(p)

SpecPlaceHolder == InitPlaceHolder /\ [][NextPlaceHolder]_vars

\* The bodies posted to the v1 API: name, response and mode, each of which
\* may be missing ("").
RequestBodies ==
    [name : {"", "b"}, response : {"", "full"},
     mode : {"", "apply", "sync", "dryRun", "bogus"}]

\* types.ValidateMigrationsMode: the three modes of the API.
ValidateMigrationsMode(mode) == mode \in {"apply", "sync", "dryRun"}

\* A binding that asks nothing of the body.
BindsMigrationsRequestAlways(body) == TRUE

\* c.ShouldBindJSON(&request) of migrationsPostRequest: response and mode are
\* required fields.
BindsMigrationsRequest(body) == body.response /= "" /\ body.mode /= ""

\* c.ShouldBindJSON(&tenant) of tenantsPostRequest: name is required, and so
\* are the fields of the embedded migrationsPostRequest.
BindsTenantsPostRequest(body) ==
    BindsMigrationsRequest(body) /\ BindsTenantRequest(body.name)

\* A request answered before any coordinator is created.
Rejected(op, body, status) ==
    [IdleCall EXCEPT !.pc = "done", !.op = op, !.request = body,
                     !.tenant = body.name,
                     !.outcome = "rejected", !.status = status,
                     !.pre = Snapshot, !.prev = lastRun]

\* migrationsPostHandler: 500 when the body does not bind, 400 when the mode
\* is none of the three, otherwise a coordinator is created.
MigrationsPost(p, body) ==
    /\ CanStart(p)
    /\ IF ~BindsMigrationsRequest(body)
       THEN call' = [call EXCEPT ![p] = Rejected("CreateVersion", [body EXCEPT !.name = ""], 500)]
       ELSE IF ~ValidateMigrationsMode(body.mode)
       THEN call' = [call EXCEPT ![p] = Rejected("CreateVersion", [body EXCEPT !.name = ""], 400)]
       ELSE \E action \in {ActionApply, ActionSync}, dryRun \in BOOLEAN :
               call' = [call EXCEPT ![p] =
                           [IdleCall EXCEPT !.pc = "load", !.op = "CreateVersion",
                                            !.request = [body EXCEPT !.name = ""],
                                            !.coordinators = 1,
                                            !.action = action, !.dryRun = dryRun,
                                            !.pre = Snapshot, !.prev = lastRun]]
    /\ UNCHANGED <<disk, edits, lastInsertID, dbVars, versionSeq, lastRun>>

\* tenantsPostHandler: 400 when the body does not bind, otherwise a coordinator
\* is created; the mode is not validated here.
TenantsPost(p, body) ==
    /\ CanStart(p)
    /\ IF ~BindsTenantsPostRequest(body)
       THEN call' = [call EXCEPT ![p] = Rejected("CreateTenant", body, 400)]
       ELSE \E action \in {ActionApply, ActionSync}, dryRun \in BOOLEAN :
               call' = [call EXCEPT ![p] =
                           [IdleCall EXCEPT !.pc = "load", !.op = "CreateTenant",
                                            !.request = body,
                                            !.coordinators = 1,
                                            !.action = action, !.dryRun = dryRun,
                                            !.tenant = body.name,
                                            !.pre = Snapshot, !.prev = lastRun]]
    /\ UNCHANGED <<disk, edits, lastInsertID, dbVars, versionSeq, lastRun>>

\* The two POST routes of the v1 API served one request at a time, with every
\* body.
NextRequest ==
    \E p \in SeqProcs :
        \/ \E body \in RequestBodies : MigrationsPost(p, body)
        \/ \E body \in RequestBodies : TenantsPost(p, body)
        \/ RunCreateVersion(p)
        \/ RunAddTenant(p)

SpecRequest == InitFixedSource /\ [][NextRequest]_vars

\* ----------------------------------------------------------------- claims

Done(p) == call[p].pc = "done"

\* No persisted row carries the version id the call of p worked with.
NothingPersistedOf(p) ==
    /\ \A k \in 1 .. Len(dbVersions) :
          call[p].versionID /= 0 => dbVersions[k].ID /= call[p].versionID
    /\ \A k \in 1 .. Len(dbMigrations) : dbMigrations[k].VersionID /= call[p].versionID
    /\ call[p].op = "CreateTenant" =>
          (call[p].tenant \in SeqToSet(dbTenants)
              => call[p].tenant \in SeqToSet(call[p].pre.tenants))

\* C1: a CreateVersion or CreateTenant whose migration SQL or migration-row
\* insert failed leaves no version row, no migration row and no tenant row of
\* its own behind (the persisted tables are those it started from), and the
\* failure reaches the caller as the value that was raised.
C1_FailedApplyLeavesNothing ==
    \A p \in Procs :
        (Done(p) /\ call[p].failedAt \in {"exec", "insert"}) =>
            /\ NothingPersistedOf(p)
            /\ Snapshot = call[p].pre
            /\ call[p].outcome = "panicked"
            /\ call[p].raised = call[p].panic
            /\ call[p].raised /= NoPanic

\* A CreateTenant failed on a row insert after rows were written in its
\* transaction.
C1_Witness ==
    \E p \in Procs :
        /\ Done(p)
        /\ call[p].op = "CreateTenant"
        /\ call[p].failedAt = "insert"
        /\ Len(call[p].txMigrations) >= 1
        /\ Len(call[p].txTenants) = 1
        /\ Len(call[p].txVersions) = 1

HadTx(p) == call[p].tx /= "none"

\* The three ways the claim lets a call with a transaction end.
EndsAsStated(c) ==
    /\ c.txEnds = 1
    /\ c.panic /= NoPanic =>
          c.tx = "rolledback" /\ c.outcome = "panicked" /\ c.raised = c.panic
    /\ (c.panic = NoPanic /\ c.dryRun) =>
          c.tx = "rolledback" /\ c.outcome = "returned" /\ c.raised = NoPanic
    /\ (c.panic = NoPanic /\ ~c.dryRun) =>
          c.tx = "committed" /\ c.outcome = "returned" /\ c.raised = NoPanic

\* C2 as stated: every call that began a transaction has ended it exactly once
\* when it completes: rollback and the original failure raised again if
\* something failed, silent rollback and normal return on dry run, commit and
\* normal return otherwise.
C2_TxEndsAsStated ==
    \A p \in Procs : (Done(p) /\ HadTx(p)) => EndsAsStated(call[p])

\* C2 as amended: as stated, except that when nothing failed and the call is no
\* dry run the commit itself may fail; the transaction is then over all the
\* same and the call raises "Could not commit transaction" instead of returning.
C2_TxEndsOnce ==
    \A p \in Procs :
        /\ call[p].tx = "open" => call[p].pc \notin {"idle", "done"}
        /\ call[p].txEnds <= 1
        /\ (Done(p) /\ HadTx(p)) =>
              \/ EndsAsStated(call[p])
              \/ /\ call[p].panic = NoPanic /\ ~call[p].dryRun
                 /\ call[p].txEnds = 1
                 /\ call[p].tx = "commitFailed"
                 /\ call[p].outcome = "panicked"
                 /\ call[p].raised = StrPanic("Could not commit transaction")

\* A call whose apply loop failed has rolled back and raised the failure again.
C2_Witness ==
    \E p \in Procs :
        /\ Done(p)
        /\ call[p].failedAt = "exec"
        /\ call[p].tx = "rolledback"
        /\ call[p].txEnds = 1
        /\ call[p].raised = StrPanic("SQL migration failed")

\* How often the SQL of file was executed against schema in the log of
\* executed statements.
ExecCount(exec, file, schema) ==
    Len(SelectSeq(exec, LAMBDA e : e.File = file /\ e.Schema = schema))

\* The schemas the claim names for a migration: every tenant for the tenant
\* kinds, the base name of the source directory for the single kinds.
TargetSchemas(m, tenants) ==
    IF IsTenantKind(m.Kind) THEN SeqToSet(tenants) ELSE {m.SourceDir[Len(m.SourceDir)]}

\* C3: a dry run (action Apply, dryRun true) persists nothing: when the call
\* is over the persisted versions, migration rows, tenants and statement
\* effects are those it started from; if it returned, the SQL of every pending
\* migration was executed once per schema inside the transaction, and a
\* failing statement made the call fail.
C3_DryRunCommitsNothing ==
    \A p \in Procs :
        (Done(p) /\ call[p].action = ActionApply /\ call[p].dryRun) =>
            /\ Snapshot = call[p].pre
            /\ call[p].tx /= "committed"
            /\ call[p].failedAt = "exec" => call[p].outcome = "panicked"
            /\ call[p].outcome = "returned" =>
                  \A k \in 1 .. Len(call[p].migrations) :
                      \A sch \in TargetSchemas(call[p].migrations[k], call[p].tenants) :
                          ExecCount(call[p].txExec, call[p].migrations[k].File, sch) = 1

\* A dry-run CreateTenant returned after executing and recording migrations
\* in its transaction.
C3_Witness ==
    \E p \in Procs :
        /\ Done(p)
        /\ call[p].op = "CreateTenant"
        /\ call[p].action = ActionApply /\ call[p].dryRun
        /\ call[p].outcome = "returned"
        /\ Len(call[p].txMigrations) >= 2
        /\ Len(call[p].txExec) >= 3

\* The files of migration kind for which some applied row holds another
\* checksum than the source.
DriftedFiles(src, applied) ==
    {src[k].File : k \in {n \in 1 .. Len(src) :
        /\ src[n].Kind \in {SingleMigration, TenantMigration}
        /\ \E r \in SeqToSet(applied) :
              r.File = src[n].File /\ r.CheckSum /= src[n].CheckSum}}

Verified(p) == call[p].op = "CreateVersion" /\ call[p].verified

\* C4: once the checksums were verified, a request whose source holds a
\* drifted file of migration kind is refused with 424 and that file among the
\* offending ones; it never reaches the apply (no pending set, no transaction,
\* no version id) and the persisted tables are untouched. The verification is
\* ok exactly when the offending list is empty, and a request is refused only
\* for drift.
C4_DriftRefused ==
    \A p \in Procs :
        /\ call[p].pc = "verify" =>
              LET v == VerifySourceMigrationsCheckSums(call[p].src, dbMigrations)
              IN /\ v.ok <=> (v.offending = <<>>)
                 /\ v.ok <=> (DriftedFiles(call[p].src, dbMigrations) = {})
        /\ Verified(p) =>
              LET drifted == DriftedFiles(call[p].src, call[p].pre.migrations)
              IN /\ drifted /= {} =>
                      /\ Done(p)
                      /\ call[p].outcome = "refused"
                      /\ call[p].status = 424
                      /\ drifted \subseteq {call[p].offending[k].File :
                                               k \in 1 .. Len(call[p].offending)}
                      /\ call[p].migrations = <<>>
                      /\ call[p].tx = "none"
                      /\ call[p].versionID = 0
                      /\ Snapshot = call[p].pre
                 /\ call[p].outcome = "refused" => drifted /= {}

\* A request was refused because an applied single migration was modified.
C4_Witness ==
    \E p \in Procs :
        /\ Done(p)
        /\ call[p].outcome = "refused"
        /\ call[p].status = 424
        /\ \E k \in 1 .. Len(call[p].offending) :
              call[p].offending[k].Kind = SingleMigration

\* How many rows of rows belong to file and schema.
RowCount(rows, file, schema) ==
    Len(SelectSeq(rows, LAMBDA r : r.File = file /\ r.Schema = schema))

\* Every persisted row had its SQL executed: only Apply runs were committed.
OnlyApplied ==
    \A k \in 1 .. Len(dbMigrations) :
        ExecCount(dbExec, dbMigrations[k].File, dbMigrations[k].Schema) >= 1

\* C5 as stated: when a CreateVersion(Apply) has returned after committed
\* Apply runs and tenant additions, every source file of migration kind has
\* exactly one applied row per target schema: one for a single migration, one
\* per existing tenant for a tenant migration.
C5_ExactlyOncePerSchema ==
    \A p \in Procs :
        (/\ Done(p)
         /\ call[p].op = "CreateVersion"
         /\ call[p].action = ActionApply /\ ~call[p].dryRun
         /\ call[p].outcome = "returned"
         /\ OnlyApplied) =>
            \A k \in 1 .. Len(call[p].src) :
                LET m == call[p].src[k]
                IN IsMigrationKind(m.Kind) =>
                      \A sch \in TargetSchemas(m, dbTenants) :
                          RowCount(dbMigrations, m.File, sch) = 1

\* The rows a call added to the persisted migrations.
AddedRows(p) ==
    SubSeq(dbMigrations, Len(call[p].pre.migrations) + 1, Len(dbMigrations))

\* The call of p runs over the source and tenants of a CreateVersion that ran
\* to its end just before it.
SecondRun(p) ==
    /\ call[p].op = "CreateVersion"
    /\ call[p].prev.valid
    /\ call[p].prev.src = call[p].src
    /\ call[p].prev.tenants = call[p].pre.tenants

\* C6: a CreateVersion over the source tree and tenant set of the CreateVersion
\* that ran to its end before it adds rows of script kind only; the rows of
\* migration kind are those the first run left.
C6_SecondRunAddsScriptsOnly ==
    \A p \in Procs :
        (Done(p) /\ SecondRun(p)) =>
            /\ MigrationKindRows(dbMigrations) = call[p].prev.rows
            /\ SubSeq(dbMigrations, 1, Len(call[p].pre.migrations)) = call[p].pre.migrations
            /\ \A k \in 1 .. Len(AddedRows(p)) :
                  AddedRows(p)[k].Kind \in {SingleScript, TenantScript}

\* A second run committed script rows while migration rows of the first run
\* were there.
C6_Witness ==
    \E p \in Procs :
        /\ Done(p) /\ SecondRun(p)
        /\ call[p].tx = "committed"
        /\ Len(AddedRows(p)) >= 1
        /\ call[p].prev.rows /= <<>>

\* The events of the apply loop in the log of a call.
LoopLog(c) == SelectSeq(c.log, LAMBDA e : e.ev \in {"exec", "insert"})

\* Where schema stands among the tenants the call read.
TenantPos(c, schema) ==
    IF \E n \in 1 .. Len(c.tenants) : c.tenants[n] = schema
    THEN CHOOSE n \in 1 .. Len(c.tenants) : c.tenants[n] = schema
    ELSE 0

\* Which input migration a row was written for.
InputPos(c, row) ==
    CHOOSE n \in 1 .. Len(c.migrations) : c.migrations[n].File = row.File

\* C7: within one apply the loop's executions and inserts follow the input
\* order of the migrations; within a tenant-kind migration they follow the
\* order of the tenants as read; on Apply each insert comes right after the
\* execution for the same migration and schema; and the rows written, like the
\* rows of the version returned, are in input order.
C7_ApplyOrder ==
    \A p \in Procs :
        LET c == call[p]
            L == LoopLog(c)
        IN /\ \A a, b \in 1 .. Len(L) :
                  a < b =>
                      /\ L[a].i <= L[b].i
                      /\ (L[a].i = L[b].i /\ IsTenantKind(c.migrations[L[a].i].Kind)) =>
                            TenantPos(c, L[a].schema) <= TenantPos(c, L[b].schema)
                      /\ (L[a].i = L[b].i /\ L[a].schema = L[b].schema) =>
                            L[a].ev = "exec" /\ L[b].ev = "insert"
           /\ \A b \in 1 .. Len(L) :
                  (L[b].ev = "insert" /\ c.action = ActionApply) =>
                      /\ b > 1
                      /\ L[b - 1] = [ev |-> "exec", i |-> L[b].i, schema |-> L[b].schema]
           /\ \A a, b \in 1 .. Len(c.txMigrations) :
                  a < b =>
                      /\ InputPos(c, c.txMigrations[a]) <= InputPos(c, c.txMigrations[b])
                      /\ InputPos(c, c.txMigrations[a]) = InputPos(c, c.txMigrations[b]) =>
                            TenantPos(c, c.txMigrations[a].Schema)
                                < TenantPos(c, c.txMigrations[b].Schema)
           /\ \A a, b \in 1 .. Len(c.migrations) :
                  a < b => MigrationLess(c.migrations[a], c.migrations[b])
           /\ (c.pc = "done" /\ c.outcome = "returned" /\ c.tx /= "none") =>
                  c.version.DBMigrations = c.txMigrations

\* An Apply over two tenants returned after a tenant-kind and another migration.
C7_Witness ==
    \E p \in Procs :
        /\ Done(p)
        /\ call[p].outcome = "returned"
        /\ call[p].action = ActionApply
        /\ Len(call[p].tenants) = 2
        /\ Len(call[p].migrations) >= 2
        /\ Len(call[p].txMigrations) >= 3

\* How many of the input migrations are of kind.
KindCount(migrations, kind) == Len(SelectSeq(migrations, LAMBDA m : m.Kind = kind))

Committed(p) == Done(p) /\ call[p].tx = "committed" /\ call[p].outcome = "returned"

\* C8: for an apply that committed, the migration rows added equal
\* SingleMigrations + SingleScripts + TenantMigrationsTotal + TenantScriptsTotal
\* of its results: one row per single-kind migration and one per tenant for
\* every tenant-kind migration.
C8_RowCountIdentity ==
    \A p \in Procs :
        Committed(p) =>
            LET r == call[p].results
                ms == call[p].migrations
            IN /\ Len(dbMigrations) - Len(call[p].pre.migrations)
                    = r.SingleMigrations + r.SingleScripts
                      + r.TenantMigrationsTotal + r.TenantScriptsTotal
               /\ Len(dbMigrations) - Len(call[p].pre.migrations)
                    = KindCount(ms, SingleMigration) + KindCount(ms, SingleScript)
                      + Len(call[p].tenants)
                        * (KindCount(ms, TenantMigration) + KindCount(ms, TenantScript))

\* An apply over two tenants committed rows of a tenant-kind migration.
C8_Witness ==
    \E p \in Procs :
        /\ Committed(p)
        /\ Len(call[p].tenants) = 2
        /\ call[p].results.TenantScriptsTotal = 2
        /\ call[p].results.SingleMigrations = 1

\* C9: the results a call returns count its input: Tenants is the number of
\* tenants used, the four kind counters are the numbers of input migrations of
\* each kind, the two tenant totals are the kind counters times Tenants, and
\* the grand totals add the single counters to the tenant totals.
C9_CountersMatchInput ==
    \A p \in Procs :
        (Done(p) /\ call[p].outcome = "returned") =>
            LET r == call[p].results
                ms == call[p].migrations
            IN /\ r.Tenants = Len(call[p].tenants)
               /\ r.SingleMigrations = KindCount(ms, SingleMigration)
               /\ r.SingleScripts = KindCount(ms, SingleScript)
               /\ r.TenantMigrations = KindCount(ms, TenantMigration)
               /\ r.TenantScripts = KindCount(ms, TenantScript)
               /\ r.TenantMigrationsTotal = r.TenantMigrations * r.Tenants
               /\ r.TenantScriptsTotal = r.TenantScripts * r.Tenants
               /\ r.MigrationsGrandTotal = r.TenantMigrationsTotal + r.SingleMigrations
               /\ r.ScriptsGrandTotal = r.TenantScriptsTotal + r.SingleScripts

\* Results were returned for an input of all four kinds over two tenants.
C9_Witness ==
    \E p \in Procs :
        /\ Done(p) /\ call[p].outcome = "returned"
        /\ call[p].results.Tenants = 2
        /\ call[p].results.SingleMigrations = 1
        /\ call[p].results.SingleScripts = 1
        /\ call[p].results.TenantMigrationsTotal = 2
        /\ call[p].results.TenantScriptsTotal = 2

\* The connector was called with no migrations at all.
EmptyApply(p) ==
    /\ call[p].migrations = <<>>
    /\ \/ call[p].pc \in {"createVersion", "begin", "createSchema", "insertTenant",
                          "insertVersion", "loop", "getVersion", "defer"}
       \/ Done(p) /\ call[p].outcome \in {"returned", "panicked"}
                  /\ call[p].failedAt /= "query"

\* C10 as stated: an apply given zero migrations (CreateVersion and CreateTenant
\* alike) opens no transaction and inserts no version row, and when it is over
\* it has returned results with every counter zero and the persisted tables
\* are unchanged.
C10_EmptyApplyDoesNothing ==
    \A p \in Procs :
        EmptyApply(p) =>
            /\ call[p].tx = "none"
            /\ call[p].txVersions = <<>>
            /\ call[p].versionID = 0
            /\ Snapshot = call[p].pre
            /\ (Done(p) /\ call[p].failedAt /= "begin") =>
                  /\ call[p].outcome = "returned"
                  /\ call[p].results = ZeroResults

\* The rows an apply of migrations over tenants writes under versionID: one per
\* single-kind migration, one per tenant for every tenant-kind migration.
RECURSIVE ApplyRows(_, _, _)
ApplyRows(migrations, tenants, versionID) ==
    IF migrations = <<>> THEN <<>>
    ELSE LET m == Head(migrations)
             schemas == IF IsTenantKind(m.Kind) THEN tenants
                        ELSE <<m.SourceDir[Len(m.SourceDir)]>>
         IN [k \in 1 .. Len(schemas) |->
                [Name |-> m.Name, SourceDir |-> m.SourceDir, File |-> m.File,
                 Kind |-> m.Kind, Schema |-> schemas[k], Contents |-> m.Contents,
                 CheckSum |-> m.CheckSum, VersionID |-> versionID]]
            \o ApplyRows(Tail(migrations), tenants, versionID)

\* The statements of a transaction that are migration SQL.
MigrationStatements(exec) == SelectSeq(exec, LAMBDA e : e.File[2] /= 0)

ReturnedFromTx(p) == Done(p) /\ call[p].outcome = "returned" /\ call[p].tx /= "none"

\* C11: an apply with action Sync executes no migration SQL at any point, for
\* any migration and schema; and an apply that returned, Sync or Apply, wrote
\* one version row and the same tracking rows for the same input: one row per
\* single-kind migration and one per tenant for every tenant-kind migration.
C11_SyncRecordsWithoutExecuting ==
    \A p \in Procs :
        /\ call[p].action = ActionSync =>
              /\ \A k \in 1 .. Len(call[p].log) : call[p].log[k].ev /= "exec"
              /\ MigrationStatements(call[p].txExec) = <<>>
        /\ ReturnedFromTx(p) =>
              /\ call[p].txMigrations
                    = ApplyRows(call[p].migrations, call[p].tenants, call[p].versionID)
              /\ Len(call[p].txVersions) = 1
              /\ call[p].txVersions[1].ID = call[p].versionID
        /\ (ReturnedFromTx(p) /\ call[p].action = ActionApply) =>
              Len(MigrationStatements(call[p].txExec)) = Len(call[p].txMigrations)

\* A Sync over two tenants committed rows of single and tenant kind while no
\* migration SQL was ever executed.
C11_Witness ==
    \E p \in Procs :
        /\ Committed(p)
        /\ call[p].action = ActionSync
        /\ Len(call[p].tenants) = 2
        /\ Len(call[p].txMigrations) >= 3
        /\ \E k \in 1 .. Len(call[p].migrations) : call[p].migrations[k].Kind = SingleMigration
        /\ MigrationStatements(dbExec) = <<>>

\* The rows of rows that carry version id.
RowsOfVersion(rows, id) == SelectSeq(rows, LAMBDA r : r.VersionID = id)

\* C12: the migration rows a call wrote all carry the call's version id; that
\* id is the id of the version row the same call inserted; no row and no
\* version that was there before the call carries it, no other call in
\* progress works with it, and once the call committed the persisted rows of
\* that version are exactly the rows the call wrote.
C12_OneVersionPerApply ==
    \A p \in Procs :
        LET c == call[p]
        IN /\ \A k \in 1 .. Len(c.txMigrations) : c.txMigrations[k].VersionID = c.versionID
           /\ c.txMigrations /= <<>> =>
                 /\ c.versionID /= 0
                 /\ c.txVersions = <<[ID |-> c.versionID, Name |-> "v"]>>
           /\ c.versionID /= 0 =>
                 /\ RowsOfVersion(c.pre.migrations, c.versionID) = <<>>
                 /\ \A k \in 1 .. Len(c.pre.versions) : c.pre.versions[k].ID /= c.versionID
                 /\ \A q \in Procs \ {p} : call[q].versionID /= c.versionID
           /\ (Done(p) /\ c.tx = "committed") =>
                 /\ RowsOfVersion(dbMigrations, c.versionID) = c.txMigrations
                 /\ Len(SelectSeq(dbVersions, LAMBDA v : v.ID = c.versionID)) = 1
           /\ (Done(p) /\ c.tx /= "committed" /\ c.versionID /= 0) =>
                 RowsOfVersion(dbMigrations, c.versionID) = <<>>

\* A second apply committed rows under its own version id next to the rows of
\* an earlier version.
C12_Witness ==
    \E p \in Procs :
        /\ Committed(p)
        /\ call[p].versionID = 2
        /\ Len(call[p].txMigrations) >= 2
        /\ RowsOfVersion(dbMigrations, 1) /= <<>>

\* C13: a CreateTenant that committed created the tenant's schema first, then
\* inserted the tenant row, then applied the migrations with that tenant as
\* the only tenant: Tenants is 1 and TenantMigrationsTotal equals
\* TenantMigrations, every row it wrote is for the new tenant's schema, and the
\* tenant is among the persisted tenants. Every tenant whose schema creation
\* is persisted is among the tenants any later CreateVersion reads.
C13_NewTenantApply ==
    /\ \A p \in Procs :
          (Done(p) /\ call[p].op = "CreateTenant" /\ call[p].tx = "committed") =>
              LET c == call[p]
              IN /\ Len(c.log) >= 2
                 /\ c.log[1] = [ev |-> "schema", i |-> 0, schema |-> c.tenant]
                 /\ c.log[2] = [ev |-> "tenant", i |-> 0, schema |-> c.tenant]
                 /\ \A k \in 3 .. Len(c.log) :
                       c.log[k].ev \in {"exec", "insert"} /\ c.log[k].schema = c.tenant
                 /\ c.txExec[1].Schema = c.tenant
                 /\ c.txExec[1].SQL = <<"create schema", c.tenant>>
                 /\ c.txTenants = <<c.tenant>>
                 /\ c.tenants = <<c.tenant>>
                 /\ c.results.Tenants = 1
                 /\ c.results.TenantMigrationsTotal = c.results.TenantMigrations
                 /\ \A k \in 1 .. Len(c.txMigrations) : c.txMigrations[k].Schema = c.tenant
                 /\ AddedRows(p) = c.txMigrations
                 /\ dbTenants = c.pre.tenants \o <<c.tenant>>
    /\ \A k \in 1 .. Len(dbExec) :
          dbExec[k].SQL[1] = "create schema" =>
              /\ dbExec[k].Schema \in SeqToSet(dbTenants)
              /\ \A q \in Procs :
                    (call[q].op = "CreateVersion" /\ call[q].pc = "begin") =>
                        dbExec[k].Schema \in SeqToSet(call[q].tenants)

\* Tenant b was added next to tenant a with two tenant-kind migrations applied.
C13_Witness ==
    \E p \in Procs :
        /\ Done(p) /\ call[p].op = "CreateTenant" /\ call[p].tx = "committed"
        /\ call[p].tenant = "b"
        /\ call[p].pre.tenants = <<"a">>
        /\ Len(call[p].txMigrations) >= 2

IsLetterOrUnderscore(ch) == ch \in {"a", "b", "_"}
IsDigit(ch) == ch \in {"1"}

\* The name matches ^[A-Za-z_][A-Za-z0-9_]*$.
ValidTenantName(name) ==
    LET chars == NameChars(name)
    IN /\ Len(chars) >= 1
       /\ IsLetterOrUnderscore(chars[1])
       /\ \A k \in 2 .. Len(chars) : IsLetterOrUnderscore(chars[k]) \/ IsDigit(chars[k])

\* C14 as stated: a request to add a tenant whose name is no identifier is
\* rejected before any SQL: no transaction is begun, no create-schema statement
\* is made of the name, and no tenant, version or migration row is written.
C14_InvalidNameRejected ==
    \A p \in Procs :
        (call[p].op = "CreateTenant" /\ ~ValidTenantName(call[p].tenant)) =>
            /\ call[p].tx = "none"
            /\ call[p].txExec = <<>>
            /\ call[p].txTenants = <<>>
            /\ call[p].txVersions = <<>>
            /\ call[p].txMigrations = <<>>
            /\ call[p].tenant \notin SeqToSet(dbTenants)

\* The files on disk.
OnDisk == {f \in DOMAIN disk : disk[f] /= NoFile}

\* C15: GetSourceMigrations returns every file on disk exactly once, sorted by
\* Name, then by the rank of the kind (SingleMigration, TenantMigration,
\* SingleScript, TenantScript), then by SourceDir, whatever the order the files
\* were enumerated in; for one Name a single-migration copy precedes every
\* tenant-migration copy.
C15_LoaderTotalOrder ==
    \A p \in Procs :
        (Done(p) /\ call[p].op = "GetSourceMigrations") =>
            LET src == call[p].src
            IN /\ Len(src) = Cardinality(OnDisk)
               /\ \A f \in OnDisk :
                     Cardinality({k \in 1 .. Len(src) : src[k] = Migration(f, disk[f])}) = 1
               /\ \A a, b \in 1 .. Len(src) :
                     a < b =>
                         \/ src[a].Name < src[b].Name
                         \/ /\ src[a].Name = src[b].Name
                            /\ KindRank(src[a].Kind) < KindRank(src[b].Kind)
                         \/ /\ src[a].Name = src[b].Name
                            /\ src[a].Kind = src[b].Kind
                            /\ DirLess(src[a].SourceDir, src[b].SourceDir)
               /\ \A a, b \in 1 .. Len(src) :
                     (/\ src[a].Name = src[b].Name
                      /\ src[a].Kind = SingleMigration
                      /\ src[b].Kind = TenantMigration) => a < b
               /\ src = GetSourceMigrations(disk)

\* The loader returned all six files: four of one Name, from two directories
\* of single migrations and two of tenant migrations.
C15_Witness ==
    \E p \in Procs :
        /\ Done(p) /\ call[p].op = "GetSourceMigrations"
        /\ Len(call[p].src) = 6
        /\ call[p].src[2].SourceDir = <<"migrations", "ref">>
        /\ call[p].src[3].SourceDir = <<"migrations", "common">>

\* C16 as stated: whatever the handler and however it is left (return, early
\* error answer, panic of a coordinator operation), every coordinator it
\* created is disposed when the request is over.
C16_EveryCoordinatorDisposed ==
    \A p \in Procs :
        Done(p) => call[p].disposed = call[p].coordinators

\* C17 as stated: every failure raised out of the core during a request,
\* whatever the kind of the value, is answered by the recovery middleware with
\* status 500, and no panic leaves the middleware.
C17_EveryPanicRecovered ==
    \A p \in Procs :
        (Done(p) /\ call[p].raised /= NoPanic) =>
            /\ call[p].status = 500
            /\ ~call[p].escaped

IsVersionRead(p) ==
    Done(p) /\ call[p].op \in {"GetVersions", "GetVersionsByFile", "GetVersionByID"}

\* The ids of the versions among the rows read.
ReadIds(rows) == {rows[k].vid : k \in 1 .. Len(rows)}

\* C18: the versions a read returns hold every version id among the rows read
\* exactly once, ids strictly descending; each version holds exactly the rows
\* read for its id, in the order they were read, and no row of another
\* version. GetVersionByID returns the one version of that id, if any.
C18_VersionReads ==
    \A p \in Procs :
        IsVersionRead(p) =>
            LET rows == call[p].rows
                vs == call[p].versions
            IN /\ {vs[k].ID : k \in 1 .. Len(vs)} = ReadIds(rows)
               /\ Len(vs) = Cardinality(ReadIds(rows))
               /\ \A a, b \in 1 .. Len(vs) : a < b => vs[a].ID > vs[b].ID
               /\ \A k \in 1 .. Len(vs) :
                     LET mine == SelectSeq(rows, LAMBDA r : r.vid = vs[k].ID)
                     IN /\ Len(vs[k].DBMigrations) = Len(mine)
                        /\ \A n \in 1 .. Len(mine) : vs[k].DBMigrations[n] = mine[n].row
                        /\ \A n \in 1 .. Len(vs[k].DBMigrations) :
                              vs[k].DBMigrations[n].VersionID = vs[k].ID
               /\ call[p].op = "GetVersionByID" => Len(vs) <= 1
               /\ (call[p].outcome = "notFound") <=> (call[p].op = "GetVersionByID" /\ rows = <<>>)

\* Two versions were returned from rows read in mixed order.
C18_Witness ==
    \E p \in Procs :
        /\ IsVersionRead(p)
        /\ Len(call[p].versions) = 2
        /\ Len(call[p].rows) = 3
        /\ call[p].rows[1].vid = 1 /\ call[p].rows[2].vid = 2 /\ call[p].rows[3].vid = 1
        /\ Len(call[p].versions[2].DBMigrations) = 2

\* No request is in progress.
AllComplete == \A p \in Procs : call[p].pc \in {"idle", "done"}

\* C19 as stated: once CreateVersion requests that ran at the same time over
\* one source tree and tenant set are all complete, no file of migration kind
\* has more than one applied row for a schema, and its SQL took effect at most
\* once per schema.
C19_ConcurrentCreateVersion ==
    AllComplete =>
        \A k \in 1 .. Len(dbMigrations) :
            IsMigrationKind(dbMigrations[k].Kind) =>
                /\ RowCount(dbMigrations, dbMigrations[k].File, dbMigrations[k].Schema) = 1
                /\ ExecCount(dbExec, dbMigrations[k].File, dbMigrations[k].Schema) <= 1

\* C20 as stated: an apply whose request context was cancelled while its
\* transaction was open takes the error path: the transaction is rolled back,
\* the failure is raised, and nothing of the apply is persisted.
C20_CancelledApplyRollsBack ==
    \A p \in Procs :
        (Done(p) /\ call[p].cancelled) =>
            /\ call[p].tx = "rolledback"
            /\ call[p].outcome = "panicked"
            /\ call[p].raised /= NoPanic
            /\ Snapshot = call[p].pre

\* The placeholder in effect for a call.
EffectivePlaceHolder(c) ==
    IF c.schemaPlaceHolder /= "" THEN c.schemaPlaceHolder ELSE "{schema}"

\* Whether sql is contents with every placeholder replaced by schema and
\* everything else as it was.
Substituted(sql, contents, placeholder, schema) ==
    /\ Len(sql) = Len(contents)
    /\ \A n \in 1 .. Len(contents) :
          sql[n] = IF contents[n] = placeholder THEN schema ELSE contents[n]

\* C21: every statement a call executed for a migration was executed under
\* action Apply for a migration m of its input and a schema s of m (the base
\* name of m.SourceDir for single kinds, a tenant name for tenant kinds), and
\* is m.Contents with every occurrence of the effective placeholder (the
\* configured one if non-empty, "{schema}" otherwise) replaced by s and
\* nothing else changed; a returned Apply has such a statement for every
\* migration and schema.
C21_PlaceholderSubstitution ==
    \A p \in Procs :
        LET c == call[p]
            stmts == MigrationStatements(c.txExec)
        IN /\ \A k \in 1 .. Len(stmts) :
                 /\ c.action = ActionApply
                 /\ \E i \in 1 .. Len(c.migrations) :
                       /\ c.migrations[i].File = stmts[k].File
                       /\ stmts[k].Schema \in TargetSchemas(c.migrations[i], c.tenants)
                       /\ Substituted(stmts[k].SQL, c.migrations[i].Contents,
                                      EffectivePlaceHolder(c), stmts[k].Schema)
           /\ ReturnedFromTx(p) /\ c.action = ActionApply =>
                 \A i \in 1 .. Len(c.migrations) :
                     \A s \in TargetSchemas(c.migrations[i], c.tenants) :
                         \E k \in 1 .. Len(stmts) :
                             /\ stmts[k].File = c.migrations[i].File
                             /\ stmts[k].Schema = s

\* An Apply under an overridden placeholder returned after it ran a single
\* migration and a tenant migration for two tenants, the tenant file holding
\* the placeholder more than once.
C21_Witness ==
    \E p \in Procs :
        /\ ReturnedFromTx(p)
        /\ call[p].action = ActionApply
        /\ call[p].schemaPlaceHolder = OverridePlaceHolder
        /\ Len(call[p].tenants) = 2
        /\ Len(MigrationStatements(call[p].txExec)) = 3
        /\ \E k \in 1 .. Len(call[p].txExec) :
              call[p].txExec[k].SQL =
                  <<"create", defaultSchemaPlaceHolder, "settings", "b",
                    defaultSchemaPlaceHolder, "b">>

\* The configured directories that are not on disk.
MissingPaths == {FileDef(f).SourceDir : f \in {g \in DOMAIN disk : disk[g] = NoDir}}

\* C22: when a configured directory is missing, GetSourceMigrations ends by a
\* "no such file or directory" failure that names a missing path, and no
\* migration is returned, not even those of the directories that exist; when
\* none is missing the call returns.
C22_MissingDirectoryFails ==
    \A p \in Procs :
        (Done(p) /\ call[p].op = "GetSourceMigrations") =>
            IF MissingPaths /= {}
            THEN /\ call[p].outcome = "panicked"
                 /\ call[p].raised.msg = "no such file or directory"
                 /\ call[p].named \in MissingPaths
                 /\ call[p].src = <<>>
            ELSE /\ call[p].outcome = "returned"
                 /\ call[p].named = <<>>

\* The loader failed over a tree where one directory is missing and another
\* holds a file.
C22_Witness ==
    \E p \in Procs :
        /\ Done(p) /\ call[p].op = "GetSourceMigrations"
        /\ call[p].outcome = "panicked"
        /\ call[p].named = <<"migrations", "tenants">>
        /\ disk[1] = ContentsOf(1, 1)
        /\ disk[2] = NoDir

\* C23: a connector constructed for a driver without a dialect fails with the
\* message "unknown driver" naming that driver, and it fails before anything
\* else of the construction: no handle was opened, no transaction begun and no
\* bootstrap statement issued.
C23_UnknownDriverFails ==
    \A p \in Procs :
        (call[p].pc /= "idle" /\ call[p].driver /= "" /\ call[p].driver \notin KnownDrivers) =>
            /\ Done(p)
            /\ call[p].outcome = "panicked"
            /\ call[p].raised = StrPanic("Failed to create Connector unknown driver")
            /\ call[p].named = <<call[p].driver>>
            /\ ~call[p].opened
            /\ call[p].initTx = "none"
            /\ call[p].tx = "none"
            /\ dbExec = call[p].pre.exec

\* A request under the driver abcxyz ended by the panic.
C23_Witness ==
    \E p \in Procs :
        /\ Done(p)
        /\ call[p].driver = "abcxyz"
        /\ call[p].failedAt = "newDialect"
        /\ call[p].named = <<"abcxyz">>

\* The objects the bootstrap statements of a call were issued for.
BootstrapIssued(c) ==
    {c.log[k].schema : k \in {n \in 1 .. Len(c.log) : c.log[n].ev = "bootstrap"}}

\* C29: when a bootstrap statement fails, nothing an earlier bootstrap
\* statement of the same construction did remains in effect, and the
\* transaction init began is ended.
C29_BootstrapTransactional ==
    \A p \in Procs :
        (Done(p) /\ call[p].failedAt = "bootstrap") =>
            /\ dbExec = call[p].pre.exec
            /\ call[p].initTx /= "open"

\* C30: GetTenants runs the configured tenantSelectSQL when there is one and
\* the dialect's statement otherwise, CreateTenant inserts the tenant by the
\* configured tenantInsertSQL when there is one and by the dialect's statement
\* otherwise, and a bootstrap that went through issued the statement for the
\* default tenants table exactly when no tenantSelectSQL is configured.
C30_TenantSQLOverride ==
    \A p \in Procs :
        LET c == call[p]
        IN /\ (c.op = "GetTenants" /\ Done(p) /\ c.outcome = "returned") =>
                 c.tenantSQL = IF c.tenantSelectSQL /= "" THEN c.tenantSelectSQL
                               ELSE "select name from migrator.migrator_tenants"
           /\ (c.op = "CreateTenant" /\ c.txTenants /= <<>>) =>
                 c.tenantSQL = IF c.tenantInsertSQL /= "" THEN c.tenantInsertSQL
                               ELSE "insert into migrator.migrator_tenants (name) values ($1)"
           /\ c.initTx = "committed" =>
                 /\ ("migrator_tenants" \in BootstrapIssued(c)) <=> (c.tenantSelectSQL = "")
                 /\ {"migrator", "migrator_migrations", "migrator_versions"}
                        \subseteq BootstrapIssued(c)

\* GetTenants returned under an overridden tenantSelectSQL after a bootstrap
\* of three statements, on a database where no tenants table was made.
C30_Witness ==
    \E p \in Procs :
        /\ Done(p) /\ call[p].op = "GetTenants" /\ call[p].outcome = "returned"
        /\ call[p].tenantSQL = "select somename from someschema.sometable"
        /\ BootstrapIssued(call[p]) = {"migrator", "migrator_migrations", "migrator_versions"}
        /\ BootstrapSQL("migrator_tenants") \notin SeqToSet(dbExec)

\* C26: once the insert of the version row failed, the apply stops: nothing
\* is executed and no migration row is inserted after it, no row carries the
\* version id 0, and the call ends rolled back with the failure raised.
C26_VersionInsertFailureAborts ==
    \A p \in Procs :
        LET c == call[p]
        IN \A k \in 1 .. Len(c.log) :
              c.log[k].ev = "versionFailed" =>
                  /\ \A j \in k + 1 .. Len(c.log) : c.log[j].ev \notin {"exec", "insert"}
                  /\ \A n \in 1 .. Len(c.txMigrations) : c.txMigrations[n].VersionID /= 0
                  /\ Done(p) => /\ c.tx = "rolledback"
                                /\ c.outcome = "panicked"
                                /\ NothingPersistedOf(p)

\* A call that returned with its transaction committed.
ReturnedCommitted(p, op) ==
    /\ Done(p) /\ call[p].op = op
    /\ call[p].outcome = "returned" /\ call[p].tx = "committed"

\* C27 as stated: when one CreateVersion and one CreateTenant of a tenant T,
\* served at the same time over one source tree, have both committed, every
\* tenant migration of the source has exactly one applied row for T and for
\* every other tenant, and under Apply its SQL took effect exactly once in
\* each of those schemas.
C27_CreateVersionWithCreateTenant ==
    (/\ ReturnedCommitted(1, "CreateVersion")
     /\ ReturnedCommitted(2, "CreateTenant")
     /\ Len(dbVersions) = 2
     /\ call[1].src = call[2].src) =>
        \A k \in 1 .. Len(call[1].src) :
            LET m == call[1].src[k]
            IN m.Kind = TenantMigration =>
                  \A t \in SeqToSet(dbTenants) :
                      /\ RowCount(dbMigrations, m.File, t) = 1
                      /\ (call[1].action = ActionApply /\ call[2].action = ActionApply) =>
                            ExecCount(dbExec, m.File, t) = 1

\* The scripts among migrations.
Scripts(migrations) == SelectSeq(migrations, LAMBDA m : ~IsMigrationKind(m.Kind))

\* Whether a row of the file of m was applied with another checksum.
ChangedSinceApplied(m, applied) ==
    \E k \in 1 .. Len(applied) :
        applied[k].File = m.File /\ applied[k].CheckSum /= m.CheckSum

\* C28: the pending set of a CreateVersion holds every SingleScript and
\* TenantScript of its source, in the source's order, whatever is applied
\* already; the files offending the checksum verification are never scripts,
\* so a request is refused only when a file of migration kind has changed.
C28_ScriptsAlwaysPending ==
    \A p \in Procs :
        LET c == call[p]
        IN c.op = "CreateVersion" =>
              /\ (c.pc = "createVersion" \/ c.tx /= "none") =>
                    Scripts(c.migrations) = Scripts(c.src)
              /\ \A k \in 1 .. Len(c.offending) : IsMigrationKind(c.offending[k].Kind)
              /\ c.outcome = "refused" =>
                    \E k \in 1 .. Len(c.src) :
                        /\ IsMigrationKind(c.src[k].Kind)
                        /\ ChangedSinceApplied(c.src[k], c.pre.migrations)

\* A CreateVersion committed a script again after the script's contents had
\* changed since it was applied.
C28_Witness ==
    \E p \in Procs :
        /\ ReturnedCommitted(p, "CreateVersion")
        /\ \E k \in 1 .. Len(call[p].migrations) :
              /\ call[p].migrations[k].Kind = SingleScript
              /\ ChangedSinceApplied(call[p].migrations[k], call[p].pre.migrations)
              /\ RowCount(dbMigrations, call[p].migrations[k].File, "config-scripts") = 2

\* C24: the observers have seen a call only after its transaction committed:
\* the counters are raised and the notifier is fired for a call that returned
\* from a committed transaction, whose version row is persisted by then; a call
\* that ended rolled back or raised has raised no counter and fired no
\* notification; and a notification that failed leaves the call returned with
\* status 200 and its rows persisted.
C24_ObserversAfterCommit ==
    \A p \in Procs :
        LET c == call[p]
        IN /\ c.observed /= NoObservers =>
                 /\ c.tx = "committed" /\ c.outcome = "returned"
                 /\ \E k \in 1 .. Len(dbVersions) : dbVersions[k].ID = c.versionID
           /\ (Done(p) /\ (c.tx /= "committed" \/ c.outcome /= "returned")) =>
                 c.observed = NoObservers
           /\ (Done(p) /\ c.tx = "committed" /\ c.outcome = "returned") =>
                 /\ c.observed.notifier \in {"sent", "failed"}
                 /\ c.observed.versions_created = (IF c.op = "CreateVersion" THEN 1 ELSE 0)
                 /\ c.observed.tenants_created = (IF c.op = "CreateTenant" THEN 1 ELSE 0)
                 /\ c.observed.migrations_applied = Len(c.txMigrations)
                 /\ c.status = 200
                 /\ RowsOfVersion(dbMigrations, c.versionID) = c.txMigrations

\* A CreateVersion that applied a migration returned with status 200 although
\* its notification failed.
C24_Witness ==
    \E p \in Procs :
        /\ ReturnedCommitted(p, "CreateVersion")
        /\ call[p].observed.notifier = "failed"
        /\ call[p].observed.versions_created = 1
        /\ call[p].observed.migrations_applied >= 1
        /\ call[p].status = 200

\* C25: GetTenants, GetVersions, GetVersionsByFile and GetAppliedMigrations
\* return a slice that is never nil, and an empty one when no row was read;
\* GetVersionByID and GetDBMigrationByID asked for an id without a row (for a
\* version: without a version row joined to a migration row) end with the
\* not-found error and no value, nothing being raised, and return the row
\* otherwise; the persisted tables and the versions sequence are as before.
C25_EmptyAndNotFoundReads ==
    \A p \in Procs :
        LET c == call[p]
        IN /\ (Done(p) /\ c.op \in {"GetVersions", "GetVersionsByFile",
                                    "GetAppliedMigrations"}) =>
                 /\ c.outcome = "returned" /\ c.raised = NoPanic
                 /\ ~c.returned.null
                 /\ c.rows = <<>> => c.returned.items = <<>>
                 /\ Snapshot = c.pre /\ versionSeq = Len(dbVersions)
           /\ (Done(p) /\ c.op = "GetTenants" /\ c.outcome = "returned") =>
                 /\ c.raised = NoPanic
                 /\ ~c.returned.null
                 /\ c.returned.items = dbTenants
                 /\ Snapshot = c.pre
           /\ (Done(p) /\ c.op = "GetVersionByID") =>
                 /\ (c.outcome = "notFound") <=>
                       ~(/\ \E k \in 1 .. Len(dbVersions) : dbVersions[k].ID = c.id
                         /\ \E k \in 1 .. Len(dbMigrations) :
                               dbMigrations[k].VersionID = c.id)
                 /\ c.outcome = "notFound" => c.returned.null
                 /\ c.outcome \in {"notFound", "returned"} /\ c.raised = NoPanic
                 /\ Snapshot = c.pre
           /\ (Done(p) /\ c.op = "GetDBMigrationByID") =>
                 /\ (c.outcome = "notFound") <=> (c.id > Len(dbMigrations))
                 /\ c.outcome = "notFound" => c.returned.null
                 /\ c.outcome = "returned" => c.returned.items = <<dbMigrations[c.id]>>
                 /\ c.outcome \in {"notFound", "returned"} /\ c.raised = NoPanic
                 /\ Snapshot = c.pre

\* GetAppliedMigrations returned an empty slice from a table without rows.
C25_Witness ==
    \E p \in Procs :
        /\ Done(p) /\ call[p].op = "GetAppliedMigrations"
        /\ dbMigrations = <<>>
        /\ call[p].returned = [null |-> FALSE, items |-> <<>>]

\* C31: a CreateVersion or CreateTenant that went through a transaction with
\* dryRun false returns to its caller only from a committed transaction, its
\* version row and migration rows persisted; when the commit fails the call
\* ends by the panic "Could not commit transaction", nothing is returned and
\* no row of the call is persisted.
C31_ResultsImplyCommit ==
    \A p \in Procs :
        LET c == call[p]
        IN (Done(p) /\ c.op \in {"CreateVersion", "CreateTenant"}
            /\ c.tx /= "none" /\ ~c.dryRun) =>
              /\ c.outcome = "returned" =>
                    /\ c.tx = "committed"
                    /\ \E k \in 1 .. Len(dbVersions) : dbVersions[k].ID = c.versionID
                    /\ RowsOfVersion(dbMigrations, c.versionID) = c.txMigrations
              /\ c.tx = "commitFailed" =>
                    /\ c.outcome = "panicked"
                    /\ c.raised = StrPanic("Could not commit transaction")
                    /\ c.observed = NoObservers
                    /\ NothingPersistedOf(p)

\* The commit of a CreateTenant that had written a migration row failed.
C31_Witness ==
    \E p \in Procs :
        /\ Done(p) /\ call[p].op = "CreateTenant"
        /\ call[p].tx = "commitFailed"
        /\ ~call[p].dryRun
        /\ Len(call[p].txMigrations) >= 1
        /\ call[p].outcome = "panicked"

\* C32: every migration row a call wrote for a migration m of its input and a
\* schema s of m stores the Contents of m as loaded, placeholders included,
\* and the CheckSum of m, which is the checksum of those contents, with
\* Schema = s; so the rows one apply wrote for a File agree in Contents and
\* CheckSum whatever their schema.
C32_RowsStoreSourceUnchanged ==
    \A p \in Procs :
        LET c == call[p]
            rows == c.txMigrations
        IN /\ \A k \in 1 .. Len(rows) :
                 \E i \in 1 .. Len(c.migrations) :
                     /\ c.migrations[i].File = rows[k].File
                     /\ rows[k].Contents = c.migrations[i].Contents
                     /\ rows[k].CheckSum = c.migrations[i].CheckSum
                     /\ rows[k].CheckSum = CheckSum(rows[k].Contents)
                     /\ rows[k].Schema \in TargetSchemas(c.migrations[i], c.tenants)
           /\ \A k, n \in 1 .. Len(rows) :
                 rows[k].File = rows[n].File =>
                     /\ rows[k].Contents = rows[n].Contents
                     /\ rows[k].CheckSum = rows[n].CheckSum

\* An Apply over two tenants wrote two rows of one file whose contents hold
\* the placeholder, after it executed different statements for the two.
C32_Witness ==
    \E p \in Procs :
        /\ ReturnedFromTx(p)
        /\ call[p].action = ActionApply
        /\ \E k, n \in 1 .. Len(call[p].txMigrations) :
              /\ call[p].txMigrations[k].Schema = "a"
              /\ call[p].txMigrations[n].Schema = "b"
              /\ call[p].txMigrations[k].File = call[p].txMigrations[n].File
              /\ \E j \in 1 .. Len(call[p].txMigrations[k].Contents) :
                    call[p].txMigrations[k].Contents[j] = "{schema}"
        /\ \E k, n \in 1 .. Len(call[p].txExec) :
              /\ call[p].txExec[k].File = call[p].txExec[n].File
              /\ call[p].txExec[k].SQL /= call[p].txExec[n].SQL

\* The files of tenant kind among migrations.
TenantKindFiles(migrations) ==
    {migrations[k].File : k \in {n \in 1 .. Len(migrations) : IsTenantKind(migrations[n].Kind)}}

\* C33: a CreateVersion that read an empty tenant list executes nothing and
\* inserts no row for its migrations of tenant kind; the results of its apply
\* count those migrations all the same (TenantMigrations and TenantScripts are
\* their numbers in the input) with Tenants, TenantMigrationsTotal and
\* TenantScriptsTotal 0.
C33_EmptyTenantSet ==
    \A p \in Procs :
        LET c == call[p]
        IN (c.op = "CreateVersion" /\ c.tx /= "none" /\ c.tenants = <<>>) =>
              /\ \A k \in 1 .. Len(c.txExec) :
                    c.txExec[k].File \notin TenantKindFiles(c.migrations)
              /\ \A k \in 1 .. Len(c.txMigrations) : ~IsTenantKind(c.txMigrations[k].Kind)
              /\ \A k \in 1 .. Len(c.log) :
                    c.log[k].ev \in {"exec", "insert"} =>
                        ~IsTenantKind(c.migrations[c.log[k].i].Kind)
              /\ (c.pc = "getVersion" \/ (Done(p) /\ c.outcome = "returned")) =>
                    /\ c.results.Tenants = 0
                    /\ c.results.TenantMigrations = KindCount(c.migrations, TenantMigration)
                    /\ c.results.TenantScripts = KindCount(c.migrations, TenantScript)
                    /\ c.results.TenantMigrationsTotal = 0
                    /\ c.results.TenantScriptsTotal = 0

\* A CreateVersion without tenants returned: it wrote the row of its single
\* migration only and counted its tenant migration and its tenant script.
C33_Witness ==
    \E p \in Procs :
        /\ Committed(p) /\ call[p].op = "CreateVersion"
        /\ call[p].tenants = <<>>
        /\ call[p].results.TenantMigrations = 1
        /\ call[p].results.TenantScripts = 1
        /\ call[p].results.TenantMigrationsTotal = 0
        /\ Len(call[p].txMigrations) = 1

\* C34: a POST /v1/migrations whose body does not bind (500) or whose mode is
\* none of apply, sync, dryRun (400), and a POST /v1/tenants whose body does
\* not bind (400), are answered with the error status at once: no coordinator
\* is created, no connection is opened, no transaction is begun and the
\* database is as the request found it.
C34_ValidationBeforeAcquisition ==
    \A p \in Procs :
        LET c == call[p]
            b == c.request
            unbound == b.response = "" \/ b.mode = ""
            badMode == b.mode \notin {"apply", "sync", "dryRun"}
            status == IF c.op = "CreateVersion" /\ unbound THEN 500 ELSE 400
        IN (\/ c.op = "CreateVersion" /\ (unbound \/ badMode)
            \/ c.op = "CreateTenant" /\ (unbound \/ b.name = "")) =>
              /\ c.pc = "done"
              /\ c.outcome = "rejected"
              /\ c.status = status
              /\ c.coordinators = 0 /\ c.disposed = 0
              /\ ~c.opened
              /\ c.tx = "none" /\ c.txEnds = 0
              /\ c.log = <<>>
              /\ c.versionID = 0
              /\ Snapshot = c.pre
              /\ lastRun = c.prev

\* A POST /v1/migrations with a mode that is none of the three was answered
\* 400 after an earlier request had written its version.
C34_Witness ==
    \E p \in Procs :
        /\ Done(p) /\ call[p].op = "CreateVersion"
        /\ call[p].request.mode = "bogus" /\ call[p].request.response = "full"
        /\ call[p].outcome = "rejected" /\ call[p].status = 400
        /\ call[p].coordinators = 0
        /\ Len(dbVersions) = 1

====
